---- MODULE Spec2Model ----
(***************************************************************************)
(* A model of the provenance server of provenance-architecture-demo:       *)
(* the DSSE signer (NewDSSE), the upload handler (HandleUpload), the build *)
(* monitor (HandleMonitor, MonitorBuild) and the rebuilder (HandleRebuild, *)
(* Rebuild, rebuildWheel).                                                 *)
(*                                                                         *)
(* Go strings that the code only compares or concatenates are TLA+         *)
(* strings.  Strings the code looks inside (file names, tags, glob         *)
(* patterns, error texts) are sequences of one-character strings, ordered  *)
(* by their ASCII code.  Byte slices are sequences of numbers 0..255.      *)
(***************************************************************************)
EXTENDS Integers, Sequences, FiniteSets, TLC

VARIABLES
    op,       \* the entry point this behaviour runs: "dsse", "upload", "monitor", "rebuild"
    pc,       \* position of the running function
    req,      \* the inputs of the call (form values, Authorization header, payload)
    policy,   \* what fetchPolicy returned for the request
    pypi,     \* the PyPiProject that pypiMetadata returns
    gh,       \* what the GitHub API lists for the source repository
    cur,      \* the data fetched for the workflow run under examination
    loc,      \* local variables of the running function
    build,    \* the Cloud Build operation
    kms,      \* the byte strings handed to the external signer, in call order
    store,    \* the Firestore collections
    resp,     \* the HTTP status written to the response (0: none written)
    alive     \* FALSE once log.Fatal has ended the process

vars == <<op, pc, req, policy, pypi, gh, cur, loc, build, kms, store, resp, alive>>

\* A nil pointer.  Values that may be nil are records.
NULL == [nil |-> TRUE]

(***************************************************************************)
(* Strings as character sequences.                                         *)
(***************************************************************************)
Ascii == <<
    " ", "!", "dquote", "#", "$", "%", "&", "'", "(", ")", "*", "+", ",", "-", ".", "/",
    "0", "1", "2", "3", "4", "5", "6", "7", "8", "9", ":", ";", "<", "=", ">", "?",
    "@", "A", "B", "C", "D", "E", "F", "G", "H", "I", "J", "K", "L", "M", "N", "O",
    "P", "Q", "R", "S", "T", "U", "V", "W", "X", "Y", "Z", "[", "bslash", "]", "^", "_",
    "bquote", "a", "b", "c", "d", "e", "f", "g", "h", "i", "j", "k", "l", "m", "n", "o",
    "p", "q", "r", "s", "t", "u", "v", "w", "x", "y", "z", "{", "|", "}", "~" >>

\* Ascii[i] is the character of byte 31 + i; the double quote, the backslash and
\* the back quote, which no modelled string holds, are entered by name.
\* The byte value of a printable character, and the character of a byte.
Ord(c) == 31 + CHOOSE i \in 1..Len(Ascii) : Ascii[i] = c
Chr(b) == Ascii[b - 31]

Digits == <<"0", "1", "2", "3", "4", "5", "6", "7", "8", "9">>
IsDigit(c) == \E i \in 1..Len(Digits) : Digits[i] = c

\* Go's s < t on strings: bytewise lexicographic order.
RECURSIVE StrLess(_, _)
StrLess(s, t) ==
    IF t = <<>> THEN FALSE
    ELSE IF s = <<>> THEN TRUE
    ELSE IF Ord(Head(s)) # Ord(Head(t)) THEN Ord(Head(s)) < Ord(Head(t))
    ELSE StrLess(Tail(s), Tail(t))

HasPrefix(s, p) == Len(s) >= Len(p) /\ SubSeq(s, 1, Len(p)) = p
HasSuffix(s, p) == Len(s) >= Len(p) /\ SubSeq(s, Len(s) - Len(p) + 1, Len(s)) = p
TrimSuffix(s, p) == IF HasSuffix(s, p) THEN SubSeq(s, 1, Len(s) - Len(p)) ELSE s

\* strings.Split(s, sep) for a one-character separator.
RECURSIVE SplitAcc(_, _, _)
SplitAcc(s, sep, acc) ==
    IF s = <<>> THEN <<acc>>
    ELSE IF Head(s) = sep THEN <<acc>> \o SplitAcc(Tail(s), sep, <<>>)
    ELSE SplitAcc(Tail(s), sep, Append(acc, Head(s)))
Split(s, sep) == SplitAcc(s, sep, <<>>)

\* fmt's %d of a natural number.
RECURSIVE Itoa(_)
Itoa(n) == IF n < 10 THEN Digits[n + 1] ELSE Itoa(n \div 10) \o Digits[(n % 10) + 1]

(***************************************************************************)
(* encoding/base64, StdEncoding.EncodeToString.                            *)
(***************************************************************************)
B64Alphabet == <<
    "A", "B", "C", "D", "E", "F", "G", "H", "I", "J", "K", "L", "M", "N", "O", "P",
    "Q", "R", "S", "T", "U", "V", "W", "X", "Y", "Z", "a", "b", "c", "d", "e", "f",
    "g", "h", "i", "j", "k", "l", "m", "n", "o", "p", "q", "r", "s", "t", "u", "v",
    "w", "x", "y", "z", "0", "1", "2", "3", "4", "5", "6", "7", "8", "9", "+", "/" >>

RECURSIVE EncodeToString(_)
EncodeToString(b) ==
    IF Len(b) = 0 THEN ""
    ELSE LET c1 == B64Alphabet[(b[1] \div 4) + 1]
         IN  IF Len(b) = 1
             THEN c1 \o B64Alphabet[((b[1] % 4) * 16) + 1] \o "=="
             ELSE LET c2 == B64Alphabet[((b[1] % 4) * 16) + (b[2] \div 16) + 1]
                  IN  IF Len(b) = 2
                      THEN c1 \o c2 \o B64Alphabet[((b[2] % 16) * 4) + 1] \o "="
                      ELSE c1 \o c2
                           \o B64Alphabet[((b[2] % 16) * 4) + (b[3] \div 64) + 1]
                           \o B64Alphabet[(b[3] % 64) + 1]
                           \o EncodeToString(SubSeq(b, 4, Len(b)))

(***************************************************************************)
(* Bounds of the model.                                                    *)
(***************************************************************************)
MaxPayloadLen == 3

(***************************************************************************)
(* Configuration (flags) and the values external services answer with.     *)
(***************************************************************************)
kmsKey == "projects/p/locations/global/keyRings/r/cryptoKeys/k/cryptoKeyVersions/1"

\* Payload bytes: 'a', 'b', 'c' and '}'.
PayloadBytes == {97, 98, 99, 125}
Payloads == UNION {[1..n -> PayloadBytes] : n \in 0..MaxPayloadLen}

\* What kmsSign returns: an error, or signature bytes.
SignerResults == {[ok |-> FALSE, sig |-> <<>>],
                  [ok |-> TRUE, sig |-> <<0, 16, 131>>],
                  [ok |-> TRUE, sig |-> <<255, 254>>]}

(***************************************************************************)
(* dsse.go                                                                 *)
(***************************************************************************)
inTotoPayloadType == "application/vnd.in-toto+json"

EmptyDSSE == [PayloadType |-> "", Payload |-> "", Signatures |-> <<>>]

\* The fmt.Sprintf of NewDSSE: the bytes that are signed.
PAE(encodedPayload) ==
    "DSSEv1 " \o Itoa(Len(inTotoPayloadType)) \o " " \o inTotoPayloadType
              \o " " \o Itoa(Len(encodedPayload)) \o " " \o encodedPayload

\* string(b) of printable bytes.
RECURSIVE StringOf(_)
StringOf(b) == IF b = <<>> THEN "" ELSE Chr(Head(b)) \o StringOf(Tail(b))

\* The envelope NewDSSE returns when the signer answered with `sig`.
Envelope(encodedPayload, sig) ==
    [PayloadType |-> inTotoPayloadType,
     Payload     |-> encodedPayload,
     Signatures  |-> << [KeyID |-> "https://cloudkms.googleapis.com/" \o kmsKey,
                         Sig   |-> EncodeToString(sig)] >>]

\* NewDSSE as it would be if it signed the payload itself.
NewDSSESignsRawPayload(payload, sign) ==
    [signed |-> [key |-> kmsKey, data |-> StringOf(payload)],
     err    |-> ~sign.ok,
     dsse   |-> IF ~sign.ok THEN EmptyDSSE
                ELSE Envelope(EncodeToString(payload), sign.sig)]

\* NewDSSE(payload) when kmsSign answers `sign`: the bytes handed to the signer,
\* the returned envelope and whether an error is returned.
NewDSSE(payload, sign) ==
    LET encodedPayload == EncodeToString(payload)
        encoded        == PAE(encodedPayload)
    IN  [signed |-> [key |-> kmsKey, data |-> encoded],
         err    |-> ~sign.ok,
         dsse   |-> IF ~sign.ok THEN EmptyDSSE
                    ELSE Envelope(encodedPayload, sign.sig)]

(***************************************************************************)
(* Values of the variables an entry point does not use.                    *)
(***************************************************************************)
NoStore == [attestations |-> <<>>, rebuilds |-> <<>>, monitors |-> <<>>]

Idle(o) ==
    /\ op = o
    /\ pc = "start"
    /\ kms = <<>>
    /\ store = NoStore
    /\ resp = 0
    /\ alive = TRUE

(***************************************************************************)
(* The signer on its own: one call of NewDSSE on any payload.              *)
(***************************************************************************)
InitDSSE ==
    /\ Idle("dsse")
    /\ req \in [payload : Payloads]
    /\ policy = NULL /\ pypi = NULL /\ gh = NULL /\ cur = NULL /\ build = NULL
    /\ loc = NULL

CallNewDSSE ==
    /\ op = "dsse" /\ pc = "start"
    /\ \E sign \in SignerResults :
          LET r == NewDSSE(req.payload, sign)
          IN  /\ kms' = Append(kms, r.signed)
              /\ loc' = [dsse |-> r.dsse, err |-> r.err]
    /\ pc' = "done"
    /\ UNCHANGED <<op, req, policy, pypi, gh, cur, build, store, resp, alive>>

NextDSSE == CallNewDSSE

SpecDSSE == InitDSSE /\ [][NextDSSE]_vars

(***************************************************************************)
(* policy.go: the Policy that fetchPolicy returns.  The policy repository  *)
(* is a function from package to the result of reading and parsing         *)
(* <scope>/<package>/policy.yaml.                                          *)
(***************************************************************************)
Packages == {"idna", "six"}

NoPolicyFile == [err |-> TRUE]

PolicyOf(repo, monitor, rebuilder, upload) ==
    [err |-> FALSE, Repo |-> repo, BuildMonitor |-> monitor, Rebuilder |-> rebuilder,
     ProvenanceUpload |-> upload]

\* fetchPolicy(scope, pkg, ref) against the policy repository.
fetchPolicy(repository, scope, pkg) == repository[pkg]

(***************************************************************************)
(* main.go: authenticatedUser and HandleUpload.                            *)
(***************************************************************************)
Emails == {"ci@example.org", "CI@example.org", "mallory@example.org"}

GithubRepo == <<"github.com", "kjd", "idna">>

\* The Authorization header: absent, or a scheme prefix and an assertion.  The
\* assertion either fails jwt's ParseUnverified or carries claims, each of
\* which may be missing (<<>>) or present (<<value>>).
NoHeader == [present |-> FALSE]
Bearer(prefix, parses, email, sub) ==
    [present |-> TRUE, prefix |-> prefix, parses |-> parses, email |-> email, sub |-> sub]

AuthHeaders ==
    {NoHeader}
    \cup {Bearer("bearer ", TRUE, <<e>>, <<"123">>) : e \in Emails}
    \cup {Bearer("Bearer ", TRUE, <<"ci@example.org">>, <<"123">>),
          Bearer("bearer ", FALSE, <<>>, <<>>),
          Bearer("bearer ", TRUE, <<>>, <<"123">>)}

\* authenticatedUser: strings.TrimPrefix only removes the exact prefix
\* "bearer "; with any other prefix the whole header is parsed as the token,
\* which fails.  A missing claim makes the type assertion panic.
authenticatedUser(h) ==
    IF ~h.present THEN [err |-> TRUE, panic |-> FALSE, email |-> ""]
    ELSE IF h.prefix # "bearer " \/ ~h.parses THEN [err |-> TRUE, panic |-> FALSE, email |-> ""]
    ELSE IF h.email = <<>> \/ h.sub = <<>> THEN [err |-> FALSE, panic |-> TRUE, email |-> ""]
    ELSE [err |-> FALSE, panic |-> FALSE, email |-> h.email[1]]

\* The loop of HandleUpload over AuthorizedBuilders, with a case-folding compare.
Fold(e) == IF e = "CI@example.org" THEN "ci@example.org" ELSE e
BuilderMatchFolded(builders, email) ==
    \E i \in 1..Len(builders) : Fold(builders[i]) = Fold(email)

\* The loop of HandleUpload over AuthorizedBuilders.
BuilderMatch(builders, email) ==
    \E i \in 1..Len(builders) : builders[i] = email

\* The form value "provenance": whether json.Unmarshal and EncodeCanonical
\* accept it, and the canonical bytes they give.
Provenances == {[parses |-> FALSE, canonical |-> <<>>],
                [parses |-> TRUE, canonical |-> <<97, 98, 99>>]}

Versions == {"3.3", "3.4"}

UploadRequests ==
    [auth : AuthHeaders, scope : {"pypi"}, pkg : Packages, version : Versions,
     provenance : Provenances]

\* Firestore: NewClient fails, Set fails, or both succeed.
FirestoreResults == {"ok", "noclient", "writefails"}

DocKey(pkg, version) == pkg \o "!" \o version

Attestation(pkg, version, raw, dsse) ==
    [package |-> pkg, version |-> version, raw |-> raw, dsse |-> dsse]

\* Doc(key).Set(doc) on a collection.
SetDoc(coll, key, doc) ==
    [k \in DOMAIN coll \cup {key} |-> IF k = key THEN doc ELSE coll[k]]

\* What one call of a handler does: the status written (200 when the handler
\* returns without writing one, 0 when it never answers), the signer calls,
\* the attestation written, the audit record added, and whether the process
\* or the goroutine was ended.
Outcome(status, signed, write, audit, ended) ==
    [status |-> status, signed |-> signed, write |-> write, audit |-> audit, ended |-> ended]

HandleUploadOutcome(r, repository, sign, fs) ==
    LET user == authenticatedUser(r.auth)
        pol  == fetchPolicy(repository, r.scope, r.pkg)
        d    == NewDSSE(r.provenance.canonical, sign)
    IN  IF user.panic THEN Outcome(0, <<>>, NULL, NULL, "panic")
        ELSE IF user.err THEN Outcome(403, <<>>, NULL, NULL, "no")
        ELSE IF pol.err THEN Outcome(500, <<>>, NULL, NULL, "no")
        ELSE IF pol.ProvenanceUpload = NULL THEN Outcome(400, <<>>, NULL, NULL, "no")
        ELSE IF ~BuilderMatch(pol.ProvenanceUpload.AuthorizedBuilders, user.email)
             THEN Outcome(403, <<>>, NULL, NULL, "no")
        ELSE IF ~r.provenance.parses THEN Outcome(400, <<>>, NULL, NULL, "no")
        ELSE IF d.err THEN Outcome(0, <<d.signed>>, NULL, NULL, "fatal")
        ELSE IF fs = "noclient" THEN Outcome(500, <<d.signed>>, NULL, NULL, "no")
        ELSE IF fs = "writefails" THEN Outcome(500, <<d.signed>>, NULL, NULL, "no")
        ELSE Outcome(200, <<d.signed>>,
                     [key |-> DocKey(r.pkg, r.version),
                      doc |-> Attestation(r.pkg, r.version, r.provenance.canonical, d.dsse)],
                     NULL, "no")

\* The effect of an outcome on the signer, the store, the response and the process.
Apply(o) ==
    /\ kms' = kms \o o.signed
    /\ store' = [attestations |-> IF o.write = NULL THEN store.attestations
                                  ELSE SetDoc(store.attestations, o.write.key, o.write.doc),
                 rebuilds     |-> IF o.audit # NULL /\ o.audit.coll = "rebuilds"
                                  THEN Append(store.rebuilds, o.audit.record)
                                  ELSE store.rebuilds,
                 monitors     |-> IF o.audit # NULL /\ o.audit.coll = "monitors"
                                  THEN Append(store.monitors, o.audit.record)
                                  ELSE store.monitors]
    /\ resp' = o.status
    /\ alive' = (o.ended # "fatal")

(***************************************************************************)
(* The upload endpoint: requests are served one after another while the    *)
(* process lives.                                                          *)
(***************************************************************************)
MaxRequests == 2

UploadPolicies ==
    {NoPolicyFile, PolicyOf(GithubRepo, NULL, [PackageRoot |-> ""], NULL)}
    \cup {PolicyOf(GithubRepo, NULL, NULL, [AuthorizedBuilders |-> b]) :
            b \in {<<>>, <<"ci@example.org">>, <<"mallory@example.org", "ci@example.org">>}}

InitUpload ==
    /\ Idle("upload")
    /\ policy \in [Packages -> UploadPolicies]
    /\ req = NULL
    /\ loc = [handled |-> 0]
    /\ pypi = NULL /\ gh = NULL /\ cur = NULL /\ build = NULL

HandleUpload ==
    /\ op = "upload" /\ alive
    /\ loc.handled < MaxRequests
    /\ \E r \in UploadRequests, sign \in SignerResults, fs \in FirestoreResults :
          /\ req' = r
          /\ Apply(HandleUploadOutcome(r, policy, sign, fs))
    /\ loc' = [handled |-> loc.handled + 1]
    /\ UNCHANGED <<op, pc, policy, pypi, gh, cur, build>>

NextUpload == HandleUpload

SpecUpload == InitUpload /\ [][NextUpload]_vars

(***************************************************************************)
(* pypi.go: the project metadata.  Versions and file names are character   *)
(* sequences; times are numbers.                                           *)
(***************************************************************************)
V33 == <<"3", ".", "3">>
V34 == <<"3", ".", "4">>
W33 == <<"i", "d", "n", "a", "-", "3", ".", "3", "-", "p", "y", "3", "-", "n", "o", "n", "e", "-", "a", "n", "y", ".", "w", "h", "l">>
S33 == <<"i", "d", "n", "a", "-", "3", ".", "3", ".", "t", "a", "r", ".", "g", "z">>
S34 == <<"i", "d", "n", "a", "-", "3", ".", "4", ".", "t", "a", "r", ".", "g", "z">>
README == <<"R", "E", "A", "D", "M", "E", ".", "m", "d">>
DotWhl == <<".", "w", "h", "l">>
GlobWhl == <<"*", ".", "w", "h", "l">>
GlobTarGz == <<"*", ".", "t", "a", "r", ".", "g", "z">>

\* string(s): the TLA+ string of a character sequence.
RECURSIVE Str(_)
Str(s) == IF s = <<>> THEN "" ELSE Head(s) \o Str(Tail(s))

MaxTime == 3
Times == 1..MaxTime

Release(filename, pythonVersion, uploadTime, sha) ==
    [Filename |-> filename, PythonVersion |-> pythonVersion, UploadTime |-> uploadTime,
     SHA256 |-> sha]

Project(latest, releases) == [LatestVersion |-> latest, Releases |-> releases]

\* project.Releases[version]: a Go map answers nil for a missing key.
ReleasesOf(project, version) ==
    IF version \in DOMAIN project.Releases THEN project.Releases[version] ELSE <<>>

\* What pypiMetadata answers the monitor with: release 3.3 has a wheel and an
\* sdist, uploaded at any two times; the latest release 3.4 has an sdist only.
MonitorProjects ==
    {Project(V34, [v \in {V33, V34} |->
                     IF v = V33 THEN <<Release(W33, "py3", t1, "w33"), Release(S33, "source", t2, "s33")>>
                     ELSE <<Release(S34, "source", t2, "s34")>>]) :
        t1 \in Times, t2 \in Times}

(***************************************************************************)
(* monitor.go: MonitorBuild.                                               *)
(***************************************************************************)
ArtifactSpec(name, patterns) == [Name |-> name, Patterns |-> patterns]
CompletionSpec(job, step) == [Job |-> job, Step |-> step]
GitHubActions(workflow, artifacts, requireSucceeded) ==
    [Workflow |-> workflow, Artifacts |-> artifacts, RequireSucceeded |-> requireSucceeded]

\* path/filepath.Match for patterns of literal characters, '*' and '?'.
RECURSIVE Match(_, _)
Match(pattern, name) ==
    IF pattern = <<>> THEN name = <<>>
    ELSE IF Head(pattern) = "*"
         THEN \/ Match(Tail(pattern), name)
              \/ name # <<>> /\ Head(name) # "/" /\ Match(pattern, Tail(name))
    ELSE IF Head(pattern) = "?"
         THEN name # <<>> /\ Head(name) # "/" /\ Match(Tail(pattern), Tail(name))
    ELSE name # <<>> /\ Head(name) = Head(pattern) /\ Match(Tail(pattern), Tail(name))

\* filepath.Base of a non-empty path without a trailing slash.
Base(path) == LET parts == Split(path, "/") IN parts[Len(parts)]

\* The releasedFiles map: file name -> upload time (a later release of the
\* same name overwrites an earlier one).
ReleasedFiles(releases) ==
    [f \in {releases[i].Filename : i \in 1..Len(releases)} |->
        LET last == CHOOSE i \in 1..Len(releases) :
                       /\ releases[i].Filename = f
                       /\ \A j \in (i + 1)..Len(releases) : releases[j].Filename # f
        IN  releases[last].UploadTime]

\* time.Before and time.After with the bounds included.
InWindowInclusive(run, uploaded) == run.CreatedAt <= uploaded /\ uploaded <= run.UpdatedAt

\* r.GetCreatedAt().Time.Before(uploaded) && r.GetUpdatedAt().Time.After(uploaded)
InWindow(run, uploaded) == run.CreatedAt < uploaded /\ run.UpdatedAt > uploaded

\* The loop that sets `timely` for a run.
RunTimely(run, releasedFiles) ==
    \E f \in DOMAIN releasedFiles : InWindow(run, releasedFiles[f])

\* The Conclusion of a job or step that has not concluded: a nil *string.
NoConclusion == "(nil)"

\* The loops over js.Jobs and j.Steps: the (found, succeeded) pair they leave.
\* *j.Conclusion and *s.Conclusion are read without a nil test, so the loop
\* ends in a panic at the first named job or step that has no conclusion.
RECURSIVE StepsGate(_, _, _)
StepsGate(steps, rs, acc) ==
    IF steps = <<>> \/ acc.panic THEN acc
    ELSE StepsGate(Tail(steps), rs,
                   IF Head(steps).Name = rs.Step
                   THEN IF Head(steps).Conclusion = NoConclusion
                        THEN [acc EXCEPT !.panic = TRUE]
                        ELSE [found |-> TRUE, succeeded |-> Head(steps).Conclusion = "success",
                              panic |-> FALSE]
                   ELSE acc)

RECURSIVE JobsGate(_, _, _)
JobsGate(jobs, rs, acc) ==
    IF jobs = <<>> \/ acc.panic THEN acc
    ELSE LET j    == Head(jobs)
             own  == IF rs.Step = ""
                     THEN IF j.Conclusion = NoConclusion
                          THEN [acc EXCEPT !.panic = TRUE]
                          ELSE [found |-> TRUE, succeeded |-> j.Conclusion = "success",
                                panic |-> FALSE]
                     ELSE acc
         IN  JobsGate(Tail(jobs), rs,
                      IF j.Name = rs.Job THEN StepsGate(j.Steps, rs, own) ELSE acc)

Gate(jobs, rs) == JobsGate(jobs, rs, [found |-> FALSE, succeeded |-> FALSE, panic |-> FALSE])

\* Whether the run passes the completion gate of the policy.
GatePassed(jobs, rs) ==
    \/ rs = NULL
    \/ LET g == Gate(jobs, rs)
       IN  ~g.panic /\ g.found /\ g.succeeded

\* Whether the gate loop dereferences a nil Conclusion.
GatePanics(jobs, rs) == rs # NULL /\ Gate(jobs, rs).panic

\* The loop `for _, spec := range opt.Artifacts { if spec.Name == a.GetName()
\* { match = &spec } }` as it would be with one variable per iteration.
MatchSpecByName(specs, name) ==
    IF \E i \in 1..Len(specs) : specs[i].Name = name
    THEN specs[CHOOSE i \in 1..Len(specs) :
                  /\ specs[i].Name = name
                  /\ \A j \in (i + 1)..Len(specs) : specs[j].Name # name]
    ELSE NULL

\* The same loop as the build compiles it (Go 1.17, the toolchain of the
\* Dockerfile): `spec` is one variable for the whole loop, so &spec points at
\* the variable, which holds the last element of opt.Artifacts once the loop
\* has ended.
MatchSpec(specs, name) ==
    IF \E i \in 1..Len(specs) : specs[i].Name = name
    THEN specs[Len(specs)]
    ELSE NULL

\* sha256 of a file's content.
Sha256(content) == <<"sha256", content>>

Subject(name, digest) == [Name |-> name, Digest |-> digest]

\* The loop over zr.File of one archive: the subjects it appends.
RECURSIVE FileSubjects(_, _, _, _)
FileSubjects(files, patterns, run, releasedFiles) ==
    IF files = <<>> THEN <<>>
    ELSE LET f       == Head(files)
             matched == \E i \in 1..Len(patterns) : Match(patterns[i], f.Name)
             timely  == /\ f.Name \in DOMAIN releasedFiles
                        /\ InWindow(run, releasedFiles[f.Name])
             rest    == FileSubjects(Tail(files), patterns, run, releasedFiles)
         IN  IF matched /\ timely
             THEN <<Subject(f.Name, Sha256(f.Content))>> \o rest
             ELSE rest

\* The loop over as.Artifacts passing over an expired artifact as over one
\* that matches no specification.
RECURSIVE CollectSkippingExpired(_, _, _, _, _)
CollectSkippingExpired(artifacts, specs, run, releasedFiles, subjects) ==
    IF artifacts = <<>> THEN [subjects |-> subjects, expired |-> FALSE, err |-> FALSE]
    ELSE LET a     == Head(artifacts)
             match == MatchSpec(specs, a.Name)
         IN  IF match = NULL \/ a.Expired
             THEN CollectSkippingExpired(Tail(artifacts), specs, run, releasedFiles, subjects)
             ELSE IF a.Status # 200
             THEN [subjects |-> subjects, expired |-> FALSE, err |-> TRUE]
             ELSE CollectSkippingExpired(Tail(artifacts), specs, run, releasedFiles,
                          subjects \o FileSubjects(a.Files, match.Patterns, run, releasedFiles))

\* The loop over as.Artifacts: the subjects collected, whether an expired
\* artifact ended the loop, and whether the function returned an error.
RECURSIVE Collect(_, _, _, _, _)
Collect(artifacts, specs, run, releasedFiles, subjects) ==
    IF artifacts = <<>> THEN [subjects |-> subjects, expired |-> FALSE, err |-> FALSE]
    ELSE LET a     == Head(artifacts)
             match == MatchSpec(specs, a.Name)
         IN  IF match = NULL
             THEN Collect(Tail(artifacts), specs, run, releasedFiles, subjects)
             ELSE IF a.Expired
             THEN [subjects |-> subjects, expired |-> TRUE, err |-> FALSE]
             ELSE IF a.Status # 200
             THEN [subjects |-> subjects, expired |-> FALSE, err |-> TRUE]
             ELSE Collect(Tail(artifacts), specs, run, releasedFiles,
                          subjects \o FileSubjects(a.Files, match.Patterns, run, releasedFiles))

\* sort.Slice(subjects, by Name): an insertion sort for slices this short.
RECURSIVE Insert(_, _)
Insert(sorted, s) ==
    IF sorted = <<>> THEN <<s>>
    ELSE IF StrLess(s.Name, sorted[Len(sorted)].Name)
         THEN Append(Insert(SubSeq(sorted, 1, Len(sorted) - 1), s), sorted[Len(sorted)])
         ELSE Append(sorted, s)

RECURSIVE InsertionSort(_, _)
InsertionSort(done, todo) ==
    IF todo = <<>> THEN done ELSE InsertionSort(Insert(done, Head(todo)), Tail(todo))

Unsorted(subjects) == subjects

SortSubjects(subjects) == InsertionSort(<<>>, subjects)

\* The statement MonitorBuild returns for a run.
MonitorStatement(subjects, wf, run) ==
    [Type           |-> "https://in-toto.io/Statement/v0.1",
     PredicateType  |-> "https://slsa.dev/provenance/v0.1",
     Subject        |-> subjects,
     Builder        |-> "https://attestations.github.com/actions-workflow/unknown-runner@v1",
     EntryPoint     |-> wf.Path,
     BuildStartedOn |-> run.CreatedAt,
     BuildFinishedOn |-> run.UpdatedAt,
     Materials      |-> <<[URI |-> run.HeadBranch, Digest |-> run.HeadSHA]>>]

(***************************************************************************)
(* main.go: HandleMonitor, the part after MonitorBuild has returned.       *)
(***************************************************************************)
\* The audit record a handler adds to a collection.
Audit(coll, pkg, version, status, message) ==
    [coll |-> coll,
     record |-> [package |-> pkg, version |-> version, status |-> status, message |-> message]]

\* The canonical encodings in_toto.EncodeCanonical may give for a statement.
Canonical == {<<123, 125>>}

\* The loop over stmt.Subject that takes the version from the first wheel:
\* <<>> when no subject is a wheel.
RECURSIVE BuiltVersionOfWheels(_)
BuiltVersionOfWheels(subjects) ==
    IF subjects = <<>> THEN <<>>
    ELSE IF HasSuffix(Head(subjects).Name, DotWhl)
         THEN Split(Base(Head(subjects).Name), "-")[2]
         ELSE BuiltVersionOfWheels(Tail(subjects))

\* HandleMonitor from the return of MonitorBuild on.
HandleMonitorOutcome(r, ret, canonical, sign, fs) ==
    IF ret.err # ""
    THEN Outcome(500, <<>>, NULL,
                 Audit("monitors", r.pkg, r.version, "error", "Failed to monitor build"), "no")
    ELSE IF ret.stmt = NULL
    THEN Outcome(404, <<>>, NULL,
                 Audit("monitors", r.pkg, r.version, "failure", "No build found"), "no")
    ELSE LET builtVersion == BuiltVersionOfWheels(ret.stmt.Subject)
             version      == IF r.version = <<>> THEN builtVersion ELSE r.version
             d            == NewDSSE(canonical, sign)
         IN  IF r.version # <<>> /\ builtVersion # r.version
             THEN Outcome(0, <<>>, NULL, NULL, "fatal")
             ELSE IF d.err THEN Outcome(0, <<d.signed>>, NULL, NULL, "fatal")
             ELSE IF fs = "writefails" THEN Outcome(500, <<d.signed>>, NULL, NULL, "no")
             ELSE Outcome(200, <<d.signed>>,
                          [key |-> DocKey(r.pkg, Str(version)),
                           doc |-> Attestation(r.pkg, version, canonical, d.dsse)],
                          Audit("monitors", r.pkg, version, "", ""), "no")

(***************************************************************************)
(* The monitor endpoint: one request, from HandleMonitor's entry to its    *)
(* return.  What the package index and the GitHub API answer is drawn when *)
(* the code asks for it.                                                   *)
(***************************************************************************)
MaxRuns == 2

Workflow(name, id, path) == [Name |-> name, ID |-> id, Path |-> path]

WorkflowListings ==
    {<<>>,
     <<Workflow("test", 5, ".github/workflows/test.yml")>>,
     <<Workflow("build", 7, ".github/workflows/build.yml"),
       Workflow("test", 5, ".github/workflows/test.yml")>>}

Job(name, conclusion, steps) == [Name |-> name, Conclusion |-> conclusion, Steps |-> steps]
Step(name, conclusion) == [Name |-> name, Conclusion |-> conclusion]

JobListings ==
    {<<>>,
     <<Job("build", "success", <<Step("test", "success")>>)>>,
     <<Job("build", "success", <<Step("test", "failure")>>)>>,
     <<Job("build", "failure", <<Step("test", "success")>>)>>,
     <<Job("lint", "success", <<Step("test", "success")>>)>>,
     <<Job("build", NoConclusion, <<Step("test", "success")>>)>>,
     <<Job("build", NoConclusion, <<Step("test", NoConclusion)>>)>>}

File(name, content) == [Name |-> name, Content |-> content]
Artifact(name, expired, status, files) ==
    [Name |-> name, Expired |-> expired, Status |-> status, Files |-> files]

ArtifactListings ==
    {<<>>,
     <<Artifact("wheel", FALSE, 200, <<File(S33, 2), File(W33, 1)>>)>>,
     <<Artifact("wheel", FALSE, 200, <<File(README, 0), File(W33, 1)>>)>>,
     <<Artifact("wheel", FALSE, 200, <<File(W33, 1)>>),
       Artifact("sdist", FALSE, 200, <<File(S33, 2)>>)>>,
     <<Artifact("sdist", FALSE, 200, <<File(S33, 2)>>),
       Artifact("wheel", FALSE, 200, <<File(W33, 1)>>)>>,
     <<Artifact("wheel", FALSE, 200, <<File(W33, 1)>>),
       Artifact("sdist", TRUE, 200, <<>>)>>,
     <<Artifact("logs", TRUE, 200, <<>>),
       Artifact("wheel", FALSE, 200, <<File(W33, 1)>>)>>,
     <<Artifact("wheel", FALSE, 404, <<>>)>>,
     <<Artifact("wheel", FALSE, 404, <<>>),
       Artifact("sdist", TRUE, 200, <<>>)>>,
     <<Artifact("logs", FALSE, 200, <<File(W33, 1)>>)>>,
     <<Artifact("sdist", FALSE, 200, <<File(S34, 3)>>)>>}

MonitorOptions ==
    {GitHubActions("build", specs, rs) :
        specs \in {<<ArtifactSpec("wheel", <<GlobWhl>>)>>,
                   <<ArtifactSpec("wheel", <<GlobWhl>>), ArtifactSpec("sdist", <<GlobTarGz>>)>>,
                   <<ArtifactSpec("sdist", <<GlobTarGz>>), ArtifactSpec("wheel", <<GlobWhl, GlobTarGz>>)>>},
        rs \in {NULL, CompletionSpec("build", ""), CompletionSpec("build", "test")}}

MonitorPolicies ==
    {NoPolicyFile,
     PolicyOf(GithubRepo, NULL, [PackageRoot |-> ""], NULL),
     PolicyOf(<<"gitlab.com", "kjd", "idna">>, GitHubActions("build", <<>>, NULL), NULL, NULL)}
    \cup {PolicyOf(GithubRepo, o, NULL, NULL) : o \in MonitorOptions}

MonitorRequests == [scope : {"pypi"}, pkg : {"idna"}, version : {<<>>, V33}]

\* A policy repository with one policy file, that of package idna.
Repository(file) == [p \in Packages |-> IF p = "idna" THEN file ELSE NoPolicyFile]

InitMonitor ==
    /\ Idle("monitor")
    /\ policy \in {Repository(f) : f \in MonitorPolicies}
    /\ req = NULL /\ pypi = NULL /\ gh = NULL /\ cur = NULL /\ build = NULL
    /\ loc = NULL

\* Every early answer given as 500.
AnswerInternalError(r, status) ==
    /\ req' = r
    /\ resp' = 500
    /\ pc' = "done"
    /\ UNCHANGED <<op, policy, pypi, gh, cur, loc, build, kms, store, alive>>

\* The handler answers at once, before MonitorBuild is called.
AnswerEarly(r, status) ==
    /\ req' = r
    /\ resp' = status
    /\ pc' = "done"
    /\ UNCHANGED <<op, policy, pypi, gh, cur, loc, build, kms, store, alive>>

\* log.Fatal: the process ends, no response is written.
Fatal(r) ==
    /\ req' = r
    /\ alive' = FALSE
    /\ pc' = "done"
    /\ UNCHANGED <<op, policy, pypi, gh, cur, loc, build, kms, store, resp>>

MonitorLocals(version, releasedFiles, wf, n) ==
    [version |-> version, releasedFiles |-> releasedFiles, wf |-> wf, n |-> n, i |-> 1,
     examined |-> <<>>, stmt |-> NULL, err |-> ""]

\* MonitorBuild returns (stmt, err).
Return(l, stmt, err) == [l EXCEPT !.stmt = stmt, !.err = err]

\* HandleMonitor up to the call of MonitorBuild, and MonitorBuild up to its
\* loop over the runs.
MonitorStart ==
    /\ op = "monitor" /\ pc = "start" /\ alive
    /\ \E r \in MonitorRequests, fs \in {"ok", "noclient"},
          net \in {"ok", "pypi", "workflows", "runs"} :
          LET pol == fetchPolicy(policy, r.scope, r.pkg)
          IN  IF pol.err THEN AnswerEarly(r, 500)
              ELSE IF pol.BuildMonitor = NULL THEN AnswerEarly(r, 400)
              ELSE IF fs = "noclient" THEN AnswerEarly(r, 500)
              ELSE IF pol.Repo[1] # "github.com"
              THEN /\ req' = r
                   /\ loc' = Return(MonitorLocals(<<>>, <<>>, NULL, 0), NULL,
                                    "Non-github repos not yet supported")
                   /\ pc' = "return"
                   /\ UNCHANGED <<op, policy, pypi, gh, cur, build, kms, store, resp, alive>>
              ELSE IF net = "pypi" THEN Fatal(r)
              ELSE \E project \in MonitorProjects, wfs \in WorkflowListings, n \in 0..MaxRuns :
                      LET version == IF r.version = <<>> THEN project.LatestVersion
                                     ELSE r.version
                          rf      == ReleasedFiles(ReleasesOf(project, version))
                          named   == {i \in 1..Len(wfs) : wfs[i].Name = pol.BuildMonitor.Workflow}
                          wf      == wfs[CHOOSE i \in named : \A j \in named : j <= i]
                      IN  IF net = "workflows" THEN Fatal(r)
                          ELSE IF Len(wfs) = 0
                          THEN /\ req' = r
                               /\ pypi' = project
                               /\ gh' = [workflows |-> wfs, runs |-> 0]
                               /\ loc' = Return(MonitorLocals(version, rf, NULL, 0),
                                                NULL, "No workflows found")
                               /\ pc' = "return"
                               /\ UNCHANGED <<op, policy, cur, build, kms, store, resp, alive>>
                          ELSE IF named = {}
                          THEN /\ req' = r
                               /\ pypi' = project
                               /\ gh' = [workflows |-> wfs, runs |-> 0]
                               /\ loc' = Return(MonitorLocals(version, rf, NULL, 0),
                                                NULL, "No workflow match")
                               /\ pc' = "return"
                               /\ UNCHANGED <<op, policy, cur, build, kms, store, resp, alive>>
                          ELSE IF net = "runs" THEN Fatal(r)
                          ELSE /\ req' = r
                               /\ pypi' = project
                               /\ gh' = [workflows |-> wfs, runs |-> n]
                               /\ loc' = MonitorLocals(version, rf, wf, n)
                               /\ pc' = IF n = 0 THEN "return" ELSE "loop"
                               /\ UNCHANGED <<op, policy, cur, build, kms, store, resp, alive>>

\* `continue`: the next run, or the end of the loop and `return nil, nil`.
Continue(l) ==
    /\ loc' = [l EXCEPT !.i = l.i + 1,
                        !.examined = Append(l.examined, [run |-> l.i, emitted |-> FALSE])]
    /\ pc' = IF l.i + 1 > l.n THEN "return" ELSE "loop"

\* `return &stmt, nil` going on with the next run instead.
EmitAndGoOn(l, stmt) ==
    /\ loc' = [l EXCEPT !.i = l.i + 1, !.stmt = stmt,
                        !.examined = Append(l.examined, [run |-> l.i, emitted |-> TRUE])]
    /\ pc' = IF l.i + 1 > l.n THEN "return" ELSE "loop"

\* `return &stmt, nil`.
Emit(l, stmt) ==
    /\ loc' = [l EXCEPT !.stmt = stmt,
                        !.examined = Append(l.examined, [run |-> l.i, emitted |-> TRUE])]
    /\ pc' = "return"

Run(id, created, updated) ==
    [ID |-> id, CreatedAt |-> created, UpdatedAt |-> updated, HeadSHA |-> id,
     HeadBranch |-> "main"]

Options == fetchPolicy(policy, req.scope, req.pkg).BuildMonitor

\* One pass of the loop over rs.WorkflowRuns up to the completion gate.
ExamineRun ==
    /\ op = "monitor" /\ pc = "loop" /\ alive
    /\ \E net \in {"ok", "jobs"} :
          IF net = "jobs" THEN Fatal(req)
          ELSE \E created \in Times, updated \in Times, jobs \in JobListings :
                  LET run == Run(loc.i, created, updated)
                  IN  /\ created <= updated
                      /\ cur' = [run |-> run, jobs |-> jobs, artifacts |-> <<>>,
                                 timely |-> RunTimely(run, loc.releasedFiles)]
                      /\ IF RunTimely(run, loc.releasedFiles)
                            /\ GatePanics(jobs, Options.RequireSucceeded)
                         THEN \* net/http recovers the panic: no response, the
                              \* process lives on
                              pc' = "done" /\ loc' = loc
                         ELSE IF RunTimely(run, loc.releasedFiles)
                                 /\ GatePassed(jobs, Options.RequireSucceeded)
                         THEN pc' = "artifacts" /\ loc' = loc
                         ELSE Continue(loc)
                      /\ UNCHANGED <<op, req, policy, pypi, gh, build, kms, store, resp, alive>>

\* The rest of the pass: the artifacts of the run, and the statement.
CollectSubjects ==
    /\ op = "monitor" /\ pc = "artifacts" /\ alive
    /\ \E artifacts \in ArtifactListings :
          LET c == Collect(artifacts, Options.Artifacts, cur.run, loc.releasedFiles, <<>>)
          IN  /\ cur' = [cur EXCEPT !.artifacts = artifacts]
              /\ IF c.err
                 THEN /\ loc' = Return([loc EXCEPT !.examined =
                                           Append(@, [run |-> loc.i, emitted |-> FALSE])],
                                       NULL, "Bad response code")
                      /\ pc' = "return"
                 ELSE IF c.expired \/ Len(c.subjects) = 0
                 THEN Continue(loc)
                 ELSE Emit(loc, MonitorStatement(SortSubjects(c.subjects), loc.wf, cur.run))
    /\ UNCHANGED <<op, req, policy, pypi, gh, build, kms, store, resp, alive>>

\* HandleMonitor after MonitorBuild has returned.
FinishMonitor ==
    /\ op = "monitor" /\ pc = "return" /\ alive
    /\ \E canonical \in Canonical, sign \in SignerResults, fs \in {"ok", "writefails"} :
          Apply(HandleMonitorOutcome(req, loc, canonical, sign, fs))
    /\ pc' = "done"
    /\ UNCHANGED <<op, req, policy, pypi, gh, cur, loc, build>>

NextMonitor ==
    \/ MonitorStart
    \/ ExamineRun
    \/ CollectSubjects
    \/ FinishMonitor

SpecMonitor == InitMonitor /\ [][NextMonitor]_vars

(***************************************************************************)
(* rebuild.go: release types, the tag pattern and Rebuild's selections.    *)
(***************************************************************************)
W34 == <<"i", "d", "n", "a", "-", "3", ".", "4", "-", "p", "y", "3", "-", "n", "o", "n", "e", "-", "a", "n", "y", ".", "w", "h", "l">>
W33py2 == <<"i", "d", "n", "a", "-", "3", ".", "3", "-", "p", "y", "2", "-", "n", "o", "n", "e", "-", "a", "n", "y", ".", "w", "h", "l">>
W33u == <<"i", "d", "n", "a", "-", "3", ".", "3", "-", "p", "y", "2", ".", "p", "y", "3", "-", "n", "o", "n", "e", "-", "a", "n", "y", ".", "w", "h", "l">>
M33 == <<"i", "d", "n", "a", "-", "3", ".", "3", "-", "c", "p", "3", "9", "-", "c", "p", "3", "9", "-", "m", "a", "n", "y", "l", "i", "n", "u", "x", "1", "_", "x", "8", "6", "_", "6", "4", ".", "w", "h", "l">>
DotTarGz == <<".", "t", "a", "r", ".", "g", "z">>
DotZip == <<".", "z", "i", "p">>
Manylinux == <<"m", "a", "n", "y", "l", "i", "n", "u", "x">>
Musllinux == <<"m", "u", "s", "l", "l", "i", "n", "u", "x">>
Macos == <<"m", "a", "c", "o", "s">>
Win == <<"w", "i", "n">>
PlatformAny == <<"a", "n", "y">>

\* The same switch taking the whole last segment as the platform.
getReleaseTypeOfSegment(releaseFile) ==
    IF HasSuffix(releaseFile, DotTarGz) THEN "sourceGztar"
    ELSE IF HasSuffix(releaseFile, DotZip) THEN "sourceZip"
    ELSE IF HasSuffix(releaseFile, DotWhl)
    THEN LET segs     == Split(TrimSuffix(releaseFile, DotWhl), "-")
             platform == segs[Len(segs)]
         IN  IF platform = PlatformAny THEN "wheelAny"
             ELSE IF HasPrefix(platform, Manylinux) THEN "wheelManylinux"
             ELSE IF HasPrefix(platform, Musllinux) THEN "wheelMusllinux"
             ELSE IF HasPrefix(platform, Macos) THEN "wheelMacos"
             ELSE IF HasPrefix(platform, Win) THEN "wheelWin"
             ELSE "unknownReleaseType"
    ELSE "unknownReleaseType"

getReleaseType(releaseFile) ==
    IF HasSuffix(releaseFile, DotTarGz) THEN "sourceGztar"
    ELSE IF HasSuffix(releaseFile, DotZip) THEN "sourceZip"
    ELSE IF HasSuffix(releaseFile, DotWhl)
    THEN LET segs     == Split(TrimSuffix(releaseFile, DotWhl), "-")
             platform == Split(segs[Len(segs)], ".")[1]
         IN  IF platform = PlatformAny THEN "wheelAny"
             ELSE IF HasPrefix(platform, Manylinux) THEN "wheelManylinux"
             ELSE IF HasPrefix(platform, Musllinux) THEN "wheelMusllinux"
             ELSE IF HasPrefix(platform, Macos) THEN "wheelMacos"
             ELSE IF HasPrefix(platform, Win) THEN "wheelWin"
             ELSE "unknownReleaseType"
    ELSE "unknownReleaseType"

\* opt.Version, or the latest version when none was asked for.
ResolveVersion(project, requested) ==
    IF requested = <<>> THEN project.LatestVersion ELSE requested

\* The inner loop over opt.Types for one release.
RECURSIVE SelectByTypes(_, _)
SelectByTypes(r, types) ==
    IF types = <<>> THEN <<>>
    ELSE (IF r.PythonVersion # "py2" /\ Head(types) = getReleaseType(r.Filename)
          THEN <<r>> ELSE <<>>) \o SelectByTypes(r, Tail(types))

\* The loop over proj.Releases[version] that fills toRebuild.
RECURSIVE ToRebuild(_, _)
ToRebuild(releases, types) ==
    IF releases = <<>> THEN <<>>
    ELSE SelectByTypes(Head(releases), types) \o ToRebuild(Tail(releases), types)

\* One character of the version inside the pattern: the version is put into
\* the pattern as it is, so its dots match any character.  Versions are made
\* of digits and dots here.
VersionCharMatches(v, c) == v = "." \/ v = c

\* re.MatchString(tag) for ^(.*[^0-9])?<version>([^abdp\-\.].*)?$ : the
\* version stands after a prefix that is empty or ends in a non-digit, and
\* is followed by nothing or by a character other than a, b, d, p, - and . .
TagMatches(tag, version) ==
    \E p \in 0..Len(tag) :
        /\ p = 0 \/ ~IsDigit(tag[p])
        /\ p + Len(version) <= Len(tag)
        /\ \A k \in 1..Len(version) : VersionCharMatches(version[k], tag[p + k])
        /\ \/ p + Len(version) = Len(tag)
           \/ tag[p + Len(version) + 1] \notin {"a", "b", "d", "p", "-", "."}

\* The loop over the tags taking any tag at all.
FirstTag(tags, version) == IF tags = <<>> THEN <<>> ELSE Head(tags)

\* The loop over the tags: the first whose name matches, "" when none does.
RECURSIVE FirstMatchingTag(_, _)
FirstMatchingTag(tags, version) ==
    IF tags = <<>> THEN <<>>
    ELSE IF TagMatches(Head(tags), version) THEN Head(tags)
    ELSE FirstMatchingTag(Tail(tags), version)

\* opt.PackageRoot, "." when it is empty.
PackageDir(packageRoot) == IF packageRoot = "" THEN "." ELSE packageRoot

(***************************************************************************)
(* rebuild.go: rebuildWheel.                                               *)
(***************************************************************************)
DiffsPrefix == <<"R", "e", "b", "u", "i", "l", "d", " ", "c", "o", "n", "t", "a", "i", "n", "e", "d", " ", "d", "i", "f", "f", "s">>
NoRelease == <<"N", "o", " ", "r", "e", "l", "e", "a", "s", "e", " ", "t", "o", " ", "r", "e", "b", "u", "i", "l", "d">>
NoTag == <<"N", "o", " ", "t", "a", "g", " ", "f", "o", "u", "n", "d">>
NoSetupPy == <<"N", "o", " ", "s", "e", "t", "u", "p", ".", "p", "y", " ", "f", "i", "l", "e", " ", "f", "o", "u", "n", "d">>
UnsupportedPython == <<"U", "n", "s", "u", "p", "p", "o", "r", "t", "e", "d", " ", "p", "y", "t", "h", "o", "n", " ", "v", "e", "r", "s", "i", "o", "n">>
NotSupported == <<"R", "e", "l", "e", "a", "s", "e", " ", "t", "y", "p", "e", " ", "n", "o", "t", " ", "s", "u", "p", "p", "o", "r", "t", "e", "d">>
ListTagsFailed == <<"G", "E", "T", " ", "t", "a", "g", "s", ":", " ", "4", "0", "4">>
CreateFailed == <<"g", "o", "o", "g", "l", "e", "a", "p", "i", ":", " ", "E", "r", "r", "o", "r", " ", "4", "0", "3">>
BuildFailed == <<"B", "u", "i", "l", "d", " ", "f", "a", "i", "l", "e", "d">>
CodeKey == <<"{", "dquote", "c", "o", "d", "e", "dquote", ":", "2", ",", "dquote", "m", "e", "s", "s", "a", "g", "e", "dquote", ":", "dquote">>

\* The texts are the leading words of the messages.
\* A non-nil error with its text, and a non-nil pointer with what it points at.
Err(text) == [nil |-> FALSE, text |-> text]
Ptr(v) == [nil |-> FALSE, v |-> v]

\* What the wheel downloaded from the index holds: the python version in the
\* name of its -nspkg.pth file ("" without such a file), its METADATA (none,
\* plain, or with a License-File field) and the bdist_wheel version of the
\* Generator line of its WHEEL file ("" when no line matches).
WheelArchive(nspkg, metadata, generator) ==
    [nspkg |-> nspkg, metadata |-> metadata, generator |-> generator]

WheelArchives ==
    {WheelArchive("", "plain", "0.37.0"),
     WheelArchive("", "licensefile", "0.37.0"),
     WheelArchive("3.9", "plain", "0.37.0"),
     WheelArchive("3.10", "none", "0.37.0"),
     WheelArchive("", "none", "0.37.0"),
     WheelArchive("", "plain", "")}

Python(archive) == IF archive.nspkg = "" THEN "python3.9" ELSE "python" \o archive.nspkg

Deps(archive) ==
    [wheel      |-> "==" \o archive.generator,
     setuptools |-> IF archive.metadata = "licensefile" THEN "==58.3.0" ELSE "==56.2.0"]

\* The steps of the build handed to the executor, in order.
BuildSteps == <<"clone", "curl", "bdist_wheel", "transfer_metadata", "diffoscope">>

\* google.rpc.Status of a failed operation.
Status(code, message) == [Code |-> code, Message |-> message]

\* What the executor reports for a finished build: no error when every step
\* succeeded, a Status when the step `failed` did not.
OpResults ==
    {[failed |-> "", Error |-> NULL]}
    \cup {[failed |-> s, Error |-> Status(2, BuildFailed)] :
            s \in {"bdist_wheel", "transfer_metadata", "diffoscope"}}
    \cup {[failed |-> "diffoscope", Error |-> Status(2, DiffsPrefix)]}

Operation(done, result) ==
    [Done |-> done, Error |-> IF done THEN result.Error ELSE NULL]

\* The build submitted for a wheel and the operation last read for it.
Build(wheel, repo, tag, packageRoot, archive, o, result) ==
    [wheel  |-> wheel,
     Substitutions |-> [FILENAME |-> wheel.Filename, REPO |-> repo, TAG |-> tag,
                        SETUPTOOLS |-> Deps(archive).setuptools,
                        WHEEL |-> Deps(archive).wheel, PACKAGEROOT |-> packageRoot],
     Steps  |-> BuildSteps,
     python |-> Python(archive),
     op     |-> o,
     failed |-> IF o.Done THEN result.failed ELSE "",
     polls  |-> 0]

\* op.Error.MarshalJSON(): {"code":2,"message":"..."}.
MarshalJSON(status) == CodeKey \o status.Message \o <<Chr(34), "}">>

\* The test of the finished operation never finding an error.
OpNeverFailed(o) == FALSE

\* op.Error != nil.
OpFailed(o) == o.Error # NULL

RebuildStatement(b, hash) ==
    [Type           |-> "https://in-toto.io/Statement/v0.1",
     PredicateType  |-> "https://slsa.dev/provenance/v0.1",
     Subject        |-> <<Subject(b.wheel.Filename, b.wheel.SHA256)>>,
     Builder        |-> "https://demo.slsa.dev/rebuilder@v1",
     EntryPoint     |-> b.Substitutions.PACKAGEROOT \o "/setup.py",
     Arguments      |-> <<[cmd |-> "git clone", branch |-> b.Substitutions.TAG,
                           repo |-> b.Substitutions.REPO],
                          [cmd |-> b.python \o " -m venv /tmp/env"],
                          [cmd |-> "/tmp/env/bin/pip3 install setuptools"
                                   \o b.Substitutions.SETUPTOOLS \o " wheel"
                                   \o b.Substitutions.WHEEL],
                          [cmd |-> "cd " \o b.Substitutions.PACKAGEROOT],
                          [cmd |-> "/tmp/env/bin/" \o b.python \o " setup.py build bdist_wheel"]>>,
     Materials      |-> <<[URI |-> [repo |-> b.Substitutions.REPO, tag |-> b.Substitutions.TAG],
                           Digest |-> hash]>>]

(***************************************************************************)
(* main.go: HandleRebuild, the part after Rebuild has returned.            *)
(***************************************************************************)
HandleRebuildOutcome(r, ret, canonical, sign, fs) ==
    IF ret.err # NULL /\ HasPrefix(ret.err.text, DiffsPrefix)
    THEN Outcome(409, <<>>, NULL,
                 Audit("rebuilds", r.pkg, r.version, "failed", Str(ret.err.text)), "no")
    ELSE IF ret.err # NULL
    THEN Outcome(500, <<>>, NULL,
                 Audit("rebuilds", r.pkg, r.version, "error", "Failed to rebuild"), "no")
    ELSE IF ret.stmts = NULL
    THEN Outcome(0, <<>>, NULL, NULL, "panic")
    ELSE LET stmts == ret.stmts.v
             parts == Split(Base(stmts[1].Subject[1].Name), "-")
             builtVersion == parts[2]
             version      == IF r.version = <<>> THEN builtVersion ELSE r.version
             d            == NewDSSE(canonical, sign)
         IN  IF Len(stmts) # 1 THEN Outcome(0, <<>>, NULL, NULL, "fatal")
             ELSE IF Len(parts) < 2 THEN Outcome(0, <<>>, NULL, NULL, "panic")
             ELSE IF r.version # <<>> /\ builtVersion # r.version
             THEN Outcome(0, <<>>, NULL, NULL, "fatal")
             ELSE IF d.err THEN Outcome(0, <<d.signed>>, NULL, NULL, "fatal")
             ELSE IF fs = "writefails" THEN Outcome(500, <<d.signed>>, NULL, NULL, "no")
             ELSE Outcome(200, <<d.signed>>,
                          [key |-> DocKey(r.pkg, Str(version)),
                           doc |-> Attestation(r.pkg, version, canonical, d.dsse)],
                          Audit("rebuilds", r.pkg, version, "success", ""), "no")

(***************************************************************************)
(* The rebuild endpoint: one request, from HandleRebuild's entry to its    *)
(* return.  The build executor answers each poll when it is asked.         *)
(***************************************************************************)
MaxPolls == 2

T33 == <<"3", ".", "3">>
Tv33 == <<"v", "3", ".", "3">>
Tv34 == <<"v", "3", ".", "4">>
T331 == <<"3", ".", "3", ".", "1">>
T330 == <<"3", ".", "3", "0">>
T33b1 == <<"3", ".", "3", "b", "1">>
Trel33 == <<"r", "e", "l", "e", "a", "s", "e", "-", "3", ".", "3">>
T3x3 == <<"3", "x", "3">>
T133 == <<"1", "3", ".", "3">>
T33a1 == <<"3", ".", "3", "a", "1">>
T33dev0 == <<"3", ".", "3", ".", "d", "e", "v", "0">>

\* What ListTags answers.
TagListings ==
    {<<>>, <<Tv33, Tv34>>, <<T331, T33>>, <<T330, T33>>, <<T33b1>>, <<Trel33>>,
     <<T133, T3x3>>, <<T33a1, T33dev0, Tv33>>}

\* What pypiMetadata answers the rebuilder with.
RebuildProjects ==
    {Project(V34, [v \in {V33, V34} |->
                     IF v = V33 THEN <<Release(W33, "py3", 1, "w33"), Release(S33, "source", 1, "s33")>>
                     ELSE <<Release(W34, "py3", 1, "w34"), Release(S34, "source", 1, "s34")>>]),
     Project(V34, [v \in {V33, V34} |->
                     IF v = V33 THEN <<Release(W33py2, "py2", 1, "w33"), Release(S33, "source", 1, "s33")>>
                     ELSE <<Release(S34, "source", 1, "s34")>>]),
     Project(V34, [v \in {V33, V34} |->
                     IF v = V33 THEN <<Release(W33u, "py2.py3", 1, "w33u"), Release(W33, "py3", 1, "w33")>>
                     ELSE <<Release(W34, "py3", 1, "w34")>>]),
     Project(V33, [v \in {V33} |->
                     <<Release(M33, "cp39", 1, "m33"), Release(W33, "py3", 1, "w33")>>])}

RebuildPolicies ==
    {NoPolicyFile,
     PolicyOf(GithubRepo, GitHubActions("build", <<>>, NULL), NULL, NULL),
     PolicyOf(<<"gitlab.com", "kjd", "idna">>, NULL, [PackageRoot |-> ""], NULL),
     PolicyOf(GithubRepo, NULL, [PackageRoot |-> ""], NULL),
     PolicyOf(GithubRepo, NULL, [PackageRoot |-> "src"], NULL)}

RebuildRequests == [scope : {"pypi"}, pkg : {"idna"}, version : {<<>>, V33}]

\* The release types HandleRebuild asks for.
Types == <<"wheelAny">>

InitRebuild ==
    /\ Idle("rebuild")
    /\ policy \in {Repository(f) : f \in RebuildPolicies}
    /\ req = NULL /\ pypi = NULL /\ gh = NULL /\ cur = NULL /\ loc = NULL
    /\ build = <<>>

\* A panic in the handler's goroutine: net/http recovers it, the connection
\* is closed without a response and the process lives on.
Panic(r) ==
    /\ req' = r
    /\ pc' = "done"
    /\ UNCHANGED <<op, policy, pypi, gh, cur, loc, build, kms, store, resp, alive>>

RebuildLocals(version, toRebuild, tag, packageDir) ==
    [version |-> version, toRebuild |-> toRebuild, tag |-> tag, packageDir |-> packageDir,
     k |-> 1, stmts |-> <<>>, ret |-> NULL]

\* Rebuild returns (nil, err).
ReturnErr(l, text) == [l EXCEPT !.ret = [stmts |-> NULL, err |-> Err(text)]]

\* Rebuild returns (&stmts, nil).
ReturnStmts(l, stmts) == [l EXCEPT !.stmts = stmts, !.ret = [stmts |-> Ptr(stmts), err |-> NULL]]

\* HandleRebuild up to the call of Rebuild, and Rebuild up to its loop over
\* the releases to rebuild.
RebuildStart ==
    /\ op = "rebuild" /\ pc = "start" /\ alive
    /\ \E r \in RebuildRequests, fs \in {"ok", "noclient"}, net \in {"ok", "pypi", "tags"} :
          LET pol == fetchPolicy(policy, r.scope, r.pkg)
          IN  IF pol.err THEN AnswerEarly(r, 500)
              ELSE IF pol.Rebuilder = NULL THEN AnswerEarly(r, 400)
              ELSE IF fs = "noclient" THEN AnswerEarly(r, 500)
              ELSE IF net = "pypi" THEN Fatal(r)
              ELSE \E project \in RebuildProjects, tags \in TagListings, file \in BOOLEAN :
                      LET version   == ResolveVersion(project, r.version)
                          toRebuild == ToRebuild(ReleasesOf(project, version), Types)
                          tag       == FirstMatchingTag(tags, version)
                          dir       == PackageDir(pol.Rebuilder.PackageRoot)
                      IN  IF toRebuild = <<>>
                          THEN /\ req' = r
                               /\ pypi' = project
                               /\ loc' = ReturnErr(RebuildLocals(version, toRebuild, <<>>, ""),
                                                   NoRelease)
                               /\ pc' = "return"
                               /\ UNCHANGED <<op, policy, gh, cur, build, kms, store, resp, alive>>
                          ELSE IF pol.Repo[1] # "github.com"
                          THEN Panic(r)
                          ELSE IF net = "tags"
                          THEN /\ req' = r
                               /\ pypi' = project
                               /\ loc' = ReturnErr(RebuildLocals(version, toRebuild, <<>>, ""),
                                                   ListTagsFailed)
                               /\ pc' = "return"
                               /\ UNCHANGED <<op, policy, gh, cur, build, kms, store, resp, alive>>
                          ELSE IF tag = <<>>
                          THEN /\ req' = r
                               /\ pypi' = project
                               /\ gh' = [tags |-> tags, setup |-> "unasked"]
                               /\ loc' = ReturnErr(RebuildLocals(version, toRebuild, tag, ""),
                                                   NoTag)
                               /\ pc' = "return"
                               /\ UNCHANGED <<op, policy, cur, build, kms, store, resp, alive>>
                          ELSE IF ~file
                          THEN /\ req' = r
                               /\ pypi' = project
                               /\ gh' = [tags |-> tags, setup |-> "absent"]
                               /\ loc' = ReturnErr(RebuildLocals(version, toRebuild, tag, dir),
                                                   NoSetupPy)
                               /\ pc' = "return"
                               /\ UNCHANGED <<op, policy, cur, build, kms, store, resp, alive>>
                          ELSE /\ req' = r
                               /\ pypi' = project
                               /\ gh' = [tags |-> tags, setup |-> "present"]
                               /\ loc' = RebuildLocals(version, toRebuild, tag, dir)
                               /\ pc' = "wheel"
                               /\ UNCHANGED <<op, policy, cur, build, kms, store, resp, alive>>

\* One pass of Rebuild's loop over toRebuild, and rebuildWheel from the
\* download of the wheel to the creation of the build.
SubmitBuild ==
    /\ op = "rebuild" /\ pc = "wheel" /\ alive
    /\ LET r   == loc.toRebuild[loc.k]
           pol == fetchPolicy(policy, req.scope, req.pkg)
       IN  IF getReleaseType(r.Filename) # "wheelAny"
           THEN /\ loc' = ReturnErr(loc, NotSupported)
                /\ pc' = "return"
                /\ UNCHANGED <<op, req, policy, pypi, gh, cur, build, kms, store, resp, alive>>
           ELSE \E dl \in {"ok", "fetchfails", "badzip"}, archive \in WheelArchives,
                   create \in {"running", "finished", "err"}, result \in OpResults :
                   IF dl # "ok" THEN Fatal(req)
                   ELSE IF archive.nspkg \notin {"", "3.9"}
                   THEN /\ loc' = ReturnErr(loc, UnsupportedPython)
                        /\ pc' = "return"
                        /\ UNCHANGED <<op, req, policy, pypi, gh, cur, build, kms, store,
                                       resp, alive>>
                   ELSE IF archive.metadata = "none" THEN Fatal(req)
                   ELSE IF archive.generator = "" THEN Panic(req)
                   ELSE IF create = "err"
                   THEN /\ loc' = ReturnErr(loc, CreateFailed)
                        /\ pc' = "return"
                        /\ UNCHANGED <<op, req, policy, pypi, gh, cur, build, kms, store,
                                       resp, alive>>
                   ELSE /\ build' = Append(build,
                                       Build(r, pol.Repo, loc.tag, loc.packageDir, archive,
                                             Operation(create = "finished", result), result))
                        /\ pc' = "poll"
                        /\ UNCHANGED <<op, req, policy, pypi, gh, cur, loc, kms, store,
                                       resp, alive>>

\* One turn of the loop `for !op.Done`: the operation is read again.
Poll ==
    /\ op = "rebuild" /\ pc = "poll" /\ alive
    /\ ~build[Len(build)].op.Done
    /\ \E get \in {"ok", "err"}, done \in BOOLEAN, result \in OpResults :
          IF get = "err" THEN Fatal(req)
          ELSE /\ done \/ build[Len(build)].polls + 1 < MaxPolls
               /\ build' = [build EXCEPT ![Len(build)] =
                              [@ EXCEPT !.op = Operation(done, result),
                                        !.failed = IF done THEN result.failed ELSE "",
                                        !.polls = @ + 1]]
               /\ UNCHANGED <<op, pc, req, policy, pypi, gh, cur, loc, kms, store, resp, alive>>

\* rebuildWheel after its loop, and Rebuild's loop going on or returning.
FinishBuild ==
    /\ op = "rebuild" /\ pc = "poll" /\ alive
    /\ build[Len(build)].op.Done
    /\ LET b == build[Len(build)]
       IN  IF OpFailed(b.op)
           THEN /\ loc' = ReturnErr(loc, MarshalJSON(b.op.Error))
                /\ pc' = "return"
                /\ UNCHANGED <<op, req, policy, pypi, gh, cur, build, kms, store, resp, alive>>
           ELSE \E sha \in {"c0ffee", "err"} :
                   IF sha = "err" THEN Fatal(req)
                   ELSE LET stmts == Append(loc.stmts, RebuildStatement(b, sha))
                        IN  /\ IF loc.k + 1 > Len(loc.toRebuild)
                               THEN /\ loc' = ReturnStmts([loc EXCEPT !.k = @ + 1], stmts)
                                    /\ pc' = "return"
                               ELSE /\ loc' = [loc EXCEPT !.k = @ + 1, !.stmts = stmts]
                                    /\ pc' = "wheel"
                            /\ UNCHANGED <<op, req, policy, pypi, gh, cur, build, kms, store,
                                           resp, alive>>

\* HandleRebuild after Rebuild has returned.
FinishRebuild ==
    /\ op = "rebuild" /\ pc = "return" /\ alive
    /\ \E canonical \in Canonical, sign \in SignerResults, fs \in {"ok", "writefails"} :
          Apply(HandleRebuildOutcome(req, loc.ret, canonical, sign, fs))
    /\ pc' = "done"
    /\ UNCHANGED <<op, req, policy, pypi, gh, cur, loc, build>>

NextRebuild ==
    \/ RebuildStart
    \/ SubmitBuild
    \/ Poll
    \/ FinishBuild
    \/ FinishRebuild

SpecRebuild == InitRebuild /\ [][NextRebuild]_vars

(***************************************************************************)
(* Both pipelines that make statements: a request to either endpoint.      *)
(***************************************************************************)
InitPipelines == InitMonitor \/ InitRebuild

NextPipelines == NextMonitor \/ NextRebuild

SpecPipelines == InitPipelines /\ [][NextPipelines]_vars

(***************************************************************************)
(* The three endpoints that sign: a process serving one of them.           *)
(***************************************************************************)
InitHandlers == InitUpload \/ InitMonitor \/ InitRebuild

NextHandlers == NextUpload \/ NextMonitor \/ NextRebuild

SpecHandlers == InitHandlers /\ [][NextHandlers]_vars

(***************************************************************************)
(* policy.go: the policy repository at a revision, fetchPolicy and         *)
(* fetchPolicies.  Paths and their segments are character sequences; the   *)
(* bytes of a file are the sequence of its lines.                          *)
(***************************************************************************)
PolicyYaml == <<"p", "o", "l", "i", "c", "y", ".", "y", "a", "m", "l">>
Pypi == <<"p", "y", "p", "i">>
Idna == <<"i", "d", "n", "a">>
Six == <<"s", "i", "x">>
Ns == <<"n", "s">>
DirDot == <<".">>
DirPolicies == <<"p", "o", "l", "i", "c", "i", "e", "s">>
DirNested == <<"d", "a", "t", "a", "/", "p", "o", "l", "i", "c", "i", "e", "s">>

\* filepath.Join(dir, name) for a clean relative dir: "." joins to the name.
Join(dir, name) == IF dir = DirDot THEN name ELSE dir \o <<"/">> \o name

\* hex.EncodeToString(sha256.Sum256(content)).
HexDigest(content) == <<"hex", Sha256(content)>>

Line(key, value) == [key |-> key, value |-> value]

\* The Policy a yaml.Unmarshal starts from.
ZeroPolicy ==
    [Repo |-> <<>>, Rebuilder |-> NULL, BuildMonitor |-> NULL, ProvenanceUpload |-> NULL,
     Digest |-> <<>>, Scope |-> <<>>, Package |-> <<>>]

\* yaml.Unmarshal(content, &np): a field without a yaml tag is set by the key
\* of its lowercased name, so digest, scope and package are keys as well;
\* unknown keys and comments are skipped; a tab indentation is an error.
RECURSIVE Unmarshal(_, _)
Unmarshal(content, np) ==
    IF content = <<>> THEN [err |-> FALSE, np |-> np]
    ELSE LET l == Head(content)
         IN  IF l.key = "tab" THEN [err |-> TRUE, np |-> np]
             ELSE Unmarshal(Tail(content),
                    IF l.key = "repo" THEN [np EXCEPT !.Repo = l.value]
                    ELSE IF l.key = "rebuilder" THEN [np EXCEPT !.Rebuilder = l.value]
                    ELSE IF l.key = "digest" THEN [np EXCEPT !.Digest = l.value]
                    ELSE IF l.key = "scope" THEN [np EXCEPT !.Scope = l.value]
                    ELSE IF l.key = "package" THEN [np EXCEPT !.Package = l.value]
                    ELSE np)

\* np.Digest = ... keeping a digest the document gave.
DigestOfDocument(np, content) ==
    IF np.Digest # <<>> THEN np ELSE [np EXCEPT !.Digest = HexDigest(content)]

\* h := sha256.Sum256(content); np.Digest = hex.EncodeToString(h[:]).
SetDigest(np, content) == [np EXCEPT !.Digest = HexDigest(content)]

\* The file at a path of the tree, NULL when there is none.
FileAt(tree, path) ==
    IF \E i \in 1..Len(tree) : tree[i].path = path
    THEN tree[CHOOSE i \in 1..Len(tree) : tree[i].path = path]
    ELSE NULL

\* fetchPolicy(c, scope, pkg, ref) with policy_repo_dir = dir.
fetchPolicyAt(tree, dir, scope, pkg) ==
    LET file == FileAt(tree, Join(Join(Join(dir, scope), pkg), PolicyYaml))
        u    == Unmarshal(file.content, ZeroPolicy)
    IN  IF file = NULL THEN [err |-> TRUE]
        ELSE IF u.err THEN [err |-> TRUE]
        ELSE [err |-> FALSE,
              np  |-> [SetDigest(u.np, file.content) EXCEPT !.Scope = scope, !.Package = pkg]]

\* Whether a path of the tree lies inside dir.
Inside(path, dir) == dir = DirDot \/ HasPrefix(path, dir \o <<"/">>)

\* The segments of a path below dir.
Below(path, dir) ==
    Split(IF dir = DirDot THEN path ELSE SubSeq(path, Len(dir) + 2, Len(path)), "/")

\* gitfs.ReadDir(dir): the entries of dir, each once, in listing order.
RECURSIVE ReadDir(_, _, _)
ReadDir(tree, dir, seen) ==
    IF tree = <<>> THEN seen
    ELSE LET path == Head(tree).path
             segs == Below(path, dir)
             e    == [Name |-> segs[1], IsDir |-> Len(segs) > 1]
         IN  ReadDir(Tail(tree), dir,
                     IF Inside(path, dir) /\ \A i \in 1..Len(seen) : seen[i].Name # e.Name
                     THEN Append(seen, e) ELSE seen)

\* The loop over the files of one directory.
RECURSIVE Visit(_, _, _)
Visit(files, dir, acc) ==
    IF files = <<>> THEN acc
    ELSE LET f == Head(files)
         IN  Visit(Tail(files), dir,
                   IF f.IsDir THEN [acc EXCEPT !.dirs = Append(@, Join(dir, f.Name))]
                   ELSE IF f.Name = PolicyYaml
                   THEN [acc EXCEPT !.paths = Append(@, Join(dir, f.Name))]
                   ELSE acc)

\* The loop `for len(dirs) > 0`: the paths of the policy.yaml files.
RECURSIVE Walk(_, _, _)
Walk(tree, dirs, paths) ==
    IF dirs = <<>> THEN paths
    ELSE LET dir == dirs[Len(dirs)]
             acc == Visit(ReadDir(tree, dir, <<>>), dir,
                          [dirs |-> SubSeq(dirs, 1, Len(dirs) - 1), paths |-> paths])
         IN  Walk(tree, acc.dirs, acc.paths)

\* The loop over paths: the policies, an error, or the panic of parts[1].
RECURSIVE ReadPolicies(_, _, _)
ReadPolicies(tree, paths, policies) ==
    IF paths = <<>> THEN [err |-> FALSE, panic |-> FALSE, policies |-> policies]
    ELSE LET content == FileAt(tree, Head(paths)).content
             u       == Unmarshal(content, ZeroPolicy)
             parts   == Split(Head(paths), "/")
         IN  IF u.err THEN [err |-> TRUE, panic |-> FALSE, policies |-> <<>>]
             ELSE IF Len(parts) < 2 THEN [err |-> FALSE, panic |-> TRUE, policies |-> <<>>]
             ELSE ReadPolicies(tree, Tail(paths),
                    Append(policies,
                           [SetDigest(u.np, content) EXCEPT !.Scope = parts[1],
                                                            !.Package = parts[2]]))

\* fetchPolicies(ref) with policy_repo_dir = dir.
fetchPolicies(tree, dir, cloned) ==
    IF ~cloned THEN [err |-> TRUE, panic |-> FALSE, policies |-> <<>>]
    ELSE ReadPolicies(tree, Walk(tree, <<dir>>, <<>>), <<>>)

(***************************************************************************)
(* The policy store on its own: a repository tree under a configured       *)
(* directory, read by fetchPolicy and by fetchPolicies.                    *)
(***************************************************************************)
PolicyDirs == {DirDot, DirPolicies, DirNested}

\* What a policy file may hold.
PlainContent ==
    <<Line("repo", GithubRepo), Line("rebuilder", [PackageRoot |-> ""])>>
CommentedContent ==
    <<Line("#", "a comment")>> \o PlainContent
DigestContent ==
    <<Line("digest", HexDigest(PlainContent)), Line("scope", Six), Line("package", Six)>>
    \o PlainContent
BadContent == <<Line("repo", GithubRepo), Line("tab", "")>>

Contents == {PlainContent, CommentedContent, DigestContent, BadContent}

FileIn(dir, rel, content) == [path |-> Join(dir, rel), content |-> content]

\* The files of the repository below dir, for one content of idna's policy.
Layouts(dir, c) ==
    {<<FileIn(dir, Pypi \o <<"/">> \o Idna \o <<"/">> \o PolicyYaml, c)>>,
     <<FileIn(dir, Pypi \o <<"/">> \o Idna \o <<"/">> \o PolicyYaml, c),
       FileIn(dir, Pypi \o <<"/">> \o Idna \o <<"/">> \o README, PlainContent),
       FileIn(dir, Pypi \o <<"/">> \o Six \o <<"/">> \o PolicyYaml, CommentedContent)>>,
     <<FileIn(dir, Pypi \o <<"/">> \o Ns \o <<"/">> \o Idna \o <<"/">> \o PolicyYaml, c),
       FileIn(dir, README, PlainContent)>>,
     <<FileIn(dir, README, PlainContent)>>}

PolicyScopes == {Pypi, Pypi \o <<"/">> \o Ns}
PolicyPackages == {Idna, Six}

InitPolicy ==
    /\ Idle("policy")
    /\ \E dir \in PolicyDirs, c \in Contents :
          policy \in {[dir |-> dir, tree |-> t] : t \in Layouts(dir, c)}
    /\ req = NULL /\ pypi = NULL /\ gh = NULL /\ build = NULL
    /\ cur = NULL /\ loc = NULL

\* One call of fetchPolicy: GetContents, GetContent, Unmarshal, digest.
CallFetchPolicy ==
    /\ op = "policy"
    /\ \E scope \in PolicyScopes, pkg \in PolicyPackages :
          /\ req' = [scope |-> scope, pkg |-> pkg]
          /\ cur' = fetchPolicyAt(policy.tree, policy.dir, scope, pkg)
    /\ UNCHANGED <<op, pc, policy, pypi, gh, loc, build, kms, store, resp, alive>>

\* One call of fetchPolicies: the clone, the walk and the policies read.
CallFetchPolicies ==
    /\ op = "policy"
    /\ \E cloned \in BOOLEAN :
          loc' = fetchPolicies(policy.tree, policy.dir, cloned)
    /\ UNCHANGED <<op, pc, req, policy, pypi, gh, cur, build, kms, store, resp, alive>>

NextPolicy == CallFetchPolicy \/ CallFetchPolicies

SpecPolicy == InitPolicy /\ [][NextPolicy]_vars

(***************************************************************************)
(* getReleaseType on its own: one call on a file name.                     *)
(***************************************************************************)
HeadWheel == <<"i", "d", "n", "a", "-", "3", ".", "3", "-", "p", "y", "3", "-", "n", "o", "n", "e", "-">>
PAnyUpper == <<"A", "n", "y">>
PAnyx == <<"a", "n", "y", "x">>
PAnyWin == <<"a", "n", "y", ".", "w", "i", "n", "3", "2">>
PLinuxAny == <<"l", "i", "n", "u", "x", ".", "a", "n", "y">>
PMany1 == <<"m", "a", "n", "y", "l", "i", "n", "u", "x", "1", "_", "x", "8", "6", "_", "6", "4">>
PXMany == <<"x", "m", "a", "n", "y", "l", "i", "n", "u", "x", "1">>
PMusl == <<"m", "u", "s", "l", "l", "i", "n", "u", "x", "_", "1", "_", "1", "_", "x", "8", "6", "_", "6", "4">>
PMacosx == <<"m", "a", "c", "o", "s", "x", "_", "1", "0", "_", "9", "_", "x", "8", "6", "_", "6", "4">>
PWin32 == <<"w", "i", "n", "3", "2">>
PWinAmd == <<"w", "i", "n", "_", "a", "m", "d", "6", "4">>
PWinUpper == <<"W", "i", "n", "3", "2">>
PLinux == <<"l", "i", "n", "u", "x", "_", "x", "8", "6", "_", "6", "4">>
PManyMany == <<"m", "a", "n", "y", "l", "i", "n", "u", "x", "2", "0", "1", "4", "_", "x", "8", "6", "_", "6", "4", ".", "m", "a", "n", "y", "l", "i", "n", "u", "x", "_", "2", "_", "1", "7", "_", "x", "8", "6", "_", "6", "4">>
PMacArm == <<"m", "a", "c", "o", "s", "x", "_", "1", "1", "_", "0", "_", "a", "r", "m", "6", "4">>
ExtWhlUpper == <<".", "W", "H", "L">>
ExtWhlZip == <<".", "w", "h", "l", ".", "z", "i", "p">>
ExtTar == <<".", "t", "a", "r">>
ExtTarGzWhl == <<".", "t", "a", "r", ".", "g", "z", ".", "w", "h", "l">>

ReleaseFileHeads == {<<>>, HeadWheel}
ReleaseFilePlatforms ==
    {<<>>, PlatformAny, PAnyUpper, PAnyx, PAnyWin, PLinuxAny, PMany1, Manylinux, PXMany,
     PMusl, PMacosx, Macos, PMacArm, PWin32, PWinAmd, Win, PWinUpper, PLinux, PManyMany}
ReleaseFileExts == {<<>>, DotWhl, DotTarGz, DotZip, ExtWhlUpper, ExtWhlZip, ExtTar, ExtTarGzWhl}

ReleaseFiles ==
    {h \o p \o e : h \in ReleaseFileHeads, p \in ReleaseFilePlatforms, e \in ReleaseFileExts}

ReleaseTypes ==
    {"unknownReleaseType", "sourceZip", "sourceGztar", "wheelAny", "wheelManylinux",
     "wheelMusllinux", "wheelMacos", "wheelWin"}

InitClassify ==
    /\ Idle("classify")
    /\ req \in [filename : ReleaseFiles]
    /\ policy = NULL /\ pypi = NULL /\ gh = NULL /\ build = NULL
    /\ cur = NULL /\ loc = NULL

CallGetReleaseType ==
    /\ op = "classify" /\ pc = "start"
    /\ cur' = [type |-> getReleaseType(req.filename)]
    /\ pc' = "done"
    /\ UNCHANGED <<op, req, policy, pypi, gh, loc, build, kms, store, resp, alive>>

NextClassify == CallGetReleaseType

SpecClassify == InitClassify /\ [][NextClassify]_vars

(***************************************************************************)
(* The attestation store under concurrent requests.  net/http serves each  *)
(* request in a goroutine of its own; the handlers share nothing but the   *)
(* signer and the attestations collection.  A request here is one that     *)
(* has passed its handler's policy checks and holds the statement bytes;   *)
(* its remaining steps are NewDSSE and Doc(pkg+"!"+version).Set.           *)
(***************************************************************************)
MaxInFlight == 2

Slots == 1..MaxInFlight

\* pkg and version are the form values as sent: nothing in the handlers
\* restricts their characters.  The policy repository holds a policy.yaml
\* with all three sections for each of these package names; "1!2.0" is a
\* version with an epoch.
StorePackages == {"idna", "idna!1"}
StoreVersions == {"2.0", "1!2.0"}

\* The package index serves plain names only, so a rebuild or monitor
\* request gets as far as the write only for those.
StoreRequests ==
    {r \in [endpoint : {"upload", "rebuild", "monitor"}, pkg : StorePackages,
            version : StoreVersions] :
        r.pkg = "idna!1" => r.endpoint = "upload"}

\* The canonical statement bytes of the request in slot i.
StatementBytes(i) == <<96 + i>>

InitStore ==
    /\ op = "store"
    /\ pc = [i \in Slots |-> "idle"]
    /\ req = [i \in Slots |-> NULL]
    /\ cur = [i \in Slots |-> NULL]
    /\ resp = [i \in Slots |-> 0]
    /\ kms = <<>>
    /\ store = NoStore
    /\ alive = TRUE
    /\ policy = NULL /\ pypi = NULL /\ gh = NULL /\ loc = NULL /\ build = NULL

\* A request arrives and its handler gets to the statement bytes.
Accept(i) ==
    /\ op = "store" /\ alive /\ pc[i] = "idle"
    /\ \E r \in StoreRequests : req' = [req EXCEPT ![i] = r]
    /\ pc' = [pc EXCEPT ![i] = "accepted"]
    /\ UNCHANGED <<op, policy, pypi, gh, cur, loc, build, kms, store, resp, alive>>

\* dsse, err := NewDSSE(stmtBytes); if err != nil { log.Fatal(err) }
SignStatement(i) ==
    /\ op = "store" /\ alive /\ pc[i] = "accepted"
    /\ \E sign \in SignerResults :
          LET d == NewDSSE(StatementBytes(i), sign)
          IN  /\ kms' = Append(kms, d.signed)
              /\ cur' = [cur EXCEPT ![i] = d.dsse]
              /\ alive' = ~d.err
    /\ pc' = [pc EXCEPT ![i] = "signed"]
    /\ UNCHANGED <<op, req, policy, pypi, gh, loc, build, store, resp>>

\* client.Collection("attestations").Doc(pkg+"!"+version).Set(...)
WriteAttestation(i) ==
    /\ op = "store" /\ alive /\ pc[i] = "signed"
    /\ \E fs \in {"ok", "writefails"} :
          IF fs = "ok"
          THEN /\ store' = [store EXCEPT !.attestations =
                               SetDoc(@, DocKey(req[i].pkg, req[i].version),
                                      Attestation(req[i].pkg, req[i].version,
                                                  StatementBytes(i), cur[i]))]
               /\ resp' = [resp EXCEPT ![i] = 200]
               /\ pc' = [pc EXCEPT ![i] = "written"]
          ELSE /\ store' = store
               /\ resp' = [resp EXCEPT ![i] = 500]
               /\ pc' = [pc EXCEPT ![i] = "failed"]
    /\ UNCHANGED <<op, req, policy, pypi, gh, cur, loc, build, kms, alive>>

NextStore ==
    \E i \in Slots :
        \/ Accept(i)
        \/ SignStatement(i)
        \/ WriteAttestation(i)

SpecStore == InitStore /\ [][NextStore]_vars

(***************************************************************************)
(* tools/transfer_metadata.go: the archive normaliser of the build.  An    *)
(* archive is the sequence of its entries; Modified stands for the three   *)
(* header fields Modified, ModifiedTime and ModifiedDate, which the code   *)
(* always copies together.                                                 *)
(***************************************************************************)
MaxSourceLen == 2
MaxDestLen == 3
MaxApplications == 2

Entry(name, content, modified, attrs) ==
    [Name |-> name, Content |-> content, Modified |-> modified, ExternalAttrs |-> attrs]

EntryNames == {"METADATA", "RECORD", "WHEEL"}

Names(archive) == {archive[i].Name : i \in 1..Len(archive)}

\* A map built by `for _, f := range files { m[f.Name] = f }`: the last
\* entry of each name.
ByName(archive, name) ==
    archive[CHOOSE i \in 1..Len(archive) :
               /\ archive[i].Name = name
               /\ \A j \in (i + 1)..Len(archive) : archive[j].Name # name]

transferMetadata(source, dest) ==
    [i \in 1..Len(dest) |->
        IF dest[i].Name \in Names(source)
        THEN [dest[i] EXCEPT !.Modified = ByName(source, dest[i].Name).Modified,
                             !.ExternalAttrs = ByName(source, dest[i].Name).ExternalAttrs]
        ELSE dest[i]]

\* The loop over source.File of transferFileOrder: the entries of destByName
\* appended, each deleted from the map once taken.
RECURSIVE Reordered(_, _, _)
Reordered(source, dest, taken) ==
    IF source = <<>> THEN <<>>
    ELSE LET name == Head(source).Name
         IN  IF name \notin Names(dest) \/ name \in taken
             THEN Reordered(Tail(source), dest, taken)
             ELSE <<ByName(dest, name)>> \o Reordered(Tail(source), dest, taken \cup {name})

\* `for _, f := range destByName`: the entries left in the map, in any order
\* (the iteration order of a Go map is not fixed).
Orderings(S) ==
    {f \in [1..Cardinality(S) -> S] : \A i, j \in 1..Cardinality(S) : f[i] = f[j] => i = j}

\* The archives transferFileOrder can leave in dest.File.
transferFileOrder(source, dest) ==
    LET left == {ByName(dest, n) : n \in Names(dest) \ Names(source)}
    IN  {Reordered(source, dest, {}) \o rest : rest \in Orderings(left)}

\* The reference archives: entries with their own times and attributes.
SourceArchives ==
    UNION {{[i \in 1..n |-> Entry(names[i], 0, 10 + i, 20 + i)] : names \in [1..n -> EntryNames]} :
             n \in 0..MaxSourceLen}

\* The rebuilt archives: every entry has a content of its own.
DestArchives ==
    UNION {{[i \in 1..n |-> Entry(names[i], i, 1, 2)] : names \in [1..n -> EntryNames]} :
             n \in 0..MaxDestLen}

InitTransfer ==
    /\ op = "transfer" /\ pc = "start"
    /\ req \in [source : SourceArchives, dest : DestArchives]
    /\ cur = req.dest
    /\ loc = [applications |-> 0, before |-> req.dest]
    /\ policy = NULL /\ pypi = NULL /\ gh = NULL /\ build = NULL
    /\ kms = <<>> /\ store = NoStore /\ resp = 0 /\ alive = TRUE

\* transferMetadata(sourceZip, destZip), at the first or a further application.
CallTransferMetadata ==
    /\ op = "transfer" /\ pc \in {"start", "ordered"}
    /\ loc.applications < MaxApplications
    /\ cur' = transferMetadata(req.source, cur)
    /\ loc' = [loc EXCEPT !.before = cur]
    /\ pc' = "metadata"
    /\ UNCHANGED <<op, req, policy, pypi, gh, build, kms, store, resp, alive>>

\* transferFileOrder(sourceZip, destZip)
CallTransferFileOrder ==
    /\ op = "transfer" /\ pc = "metadata"
    /\ cur' \in transferFileOrder(req.source, cur)
    /\ loc' = [loc EXCEPT !.applications = @ + 1]
    /\ pc' = "ordered"
    /\ UNCHANGED <<op, req, policy, pypi, gh, build, kms, store, resp, alive>>

NextTransfer ==
    \/ CallTransferMetadata
    \/ CallTransferFileOrder

SpecTransfer == InitTransfer /\ [][NextTransfer]_vars

(***************************************************************************)
(* C10: NewDSSE hands the signer exactly the PAE string                    *)
(*   "DSSEv1 28 application/vnd.in-toto+json <len(b64)> <b64>"             *)
(* of the base64 payload, never the payload itself; the envelope returned  *)
(* carries the in-toto payload type, the base64 payload and exactly one    *)
(* signature; when the signer fails no envelope is returned.               *)
(***************************************************************************)
\* Test vectors computed with an independent base64 implementation.
B64Vectors == {
    << <<>>,             "",         "DSSEv1 28 application/vnd.in-toto+json 0 " >>,
    << <<97>>,           "YQ==",     "DSSEv1 28 application/vnd.in-toto+json 4 YQ==" >>,
    << <<97, 98>>,       "YWI=",     "DSSEv1 28 application/vnd.in-toto+json 4 YWI=" >>,
    << <<97, 98, 99>>,   "YWJj",     "DSSEv1 28 application/vnd.in-toto+json 4 YWJj" >>,
    << <<125>>,          "fQ==",     "DSSEv1 28 application/vnd.in-toto+json 4 fQ==" >>,
    << <<125, 125>>,     "fX0=",     "DSSEv1 28 application/vnd.in-toto+json 4 fX0=" >>,
    << <<97, 125, 99>>,  "YX1j",     "DSSEv1 28 application/vnd.in-toto+json 4 YX1j" >>,
    << <<97, 98, 99, 97>>, "YWJjYQ==", "DSSEv1 28 application/vnd.in-toto+json 8 YWJjYQ==" >> }

C10_SignsPAE ==
    (op = "dsse" /\ pc = "done") =>
        LET n   == Len(req.payload)
            b64 == EncodeToString(req.payload)
        IN  /\ Len(kms) = 1
            /\ kms[1].key = kmsKey
            /\ kms[1].data = "DSSEv1 28 application/vnd.in-toto+json "
                                \o Itoa(4 * ((n + 2) \div 3)) \o " " \o b64
            /\ kms[1].data # StringOf(req.payload)
            /\ \A v \in B64Vectors :
                   req.payload = v[1] => b64 = v[2] /\ kms[1].data = v[3]
            /\ ~loc.err => /\ loc.dsse.PayloadType = "application/vnd.in-toto+json"
                           /\ loc.dsse.Payload = b64
                           /\ Len(loc.dsse.Signatures) = 1
            /\ loc.err => loc.dsse = EmptyDSSE

\* NewDSSE signed "abc" and returned the envelope.
C10_Witness ==
    /\ op = "dsse" /\ pc = "done"
    /\ req.payload = <<97, 98, 99>>
    /\ ~loc.err
    /\ kms[1].data = "DSSEv1 28 application/vnd.in-toto+json 4 YWJj"

(***************************************************************************)
(* C1: HandleUpload calls the signer and writes an attestation only when   *)
(* the email claim of the request's bearer credential equals, verbatim, an *)
(* entry of the package policy's provenance_upload.authorized_builders;    *)
(* a request whose principal is not in that list is answered 403 and       *)
(* neither the signer nor the attestation store is called.                 *)
(***************************************************************************)
\* The request carries a credential from which a principal is extracted.
C1_HasPrincipal(r) ==
    /\ r.auth.present /\ r.auth.prefix = "bearer " /\ r.auth.parses
    /\ r.auth.email # <<>> /\ r.auth.sub # <<>>

\* The package's policy has an allow-list.
C1_HasList(r) ==
    /\ ~policy[r.pkg].err
    /\ policy[r.pkg].ProvenanceUpload # NULL

C1_Listed(r) ==
    /\ C1_HasPrincipal(r)
    /\ C1_HasList(r)
    /\ r.auth.email[1] \in
          {policy[r.pkg].ProvenanceUpload.AuthorizedBuilders[i] :
              i \in 1..Len(policy[r.pkg].ProvenanceUpload.AuthorizedBuilders)}

C1_UploadAuthorized ==
    [][ (op = "upload" /\ loc'.handled = loc.handled + 1) =>
          /\ (kms' # kms \/ store' # store) => C1_Listed(req')
          /\ (C1_HasPrincipal(req') /\ C1_HasList(req') /\ ~C1_Listed(req')) =>
                (resp' = 403 /\ kms' = kms /\ store' = store) ]_vars

\* A request whose email differs from the listed builder only by case was refused.
C1_Witness ==
    /\ op = "upload" /\ loc.handled = 1
    /\ req.auth = Bearer("bearer ", TRUE, <<"CI@example.org">>, <<"123">>)
    /\ C1_HasList(req)
    /\ policy[req.pkg].ProvenanceUpload.AuthorizedBuilders = <<"ci@example.org">>
    /\ resp = 403 /\ kms = <<>> /\ store = NoStore

(***************************************************************************)
(* The runs MonitorBuild has examined.                                     *)
(***************************************************************************)
\* MonitorBuild has examined at least one run, the last of which is cur.run.
Examined == op = "monitor" /\ cur # NULL /\ loc # NULL

\* The last run examined has gone through the whole pass of the loop.
PassEnded ==
    /\ Examined
    /\ Len(loc.examined) > 0
    /\ loc.examined[Len(loc.examined)].run = cur.run.ID

\* The releases of the version the request resolves to.
ResolvedReleases ==
    LET version == IF req.version = <<>> THEN pypi.LatestVersion ELSE req.version
        releases == IF version \in DOMAIN pypi.Releases THEN pypi.Releases[version] ELSE <<>>
    IN  {releases[i] : i \in 1..Len(releases)}

StrictlyInside(run, t) == run.CreatedAt < t /\ t < run.UpdatedAt

(***************************************************************************)
(* C2: MonitorBuild examines the runs in listing order and returns the     *)
(* statement of the first run that satisfies all constraints (timely, gate *)
(* passed, no expired matched artifact, a surviving subject); no later run *)
(* is examined; the not-found result (nil, nil) is returned exactly when   *)
(* no run of the list satisfies them, and HandleMonitor answers it 404.    *)
(* Calls ended by a failed download or by log.Fatal return no result and   *)
(* are outside this property.                                              *)
(***************************************************************************)
C2_ExpiredMatched ==
    \E i \in 1..Len(cur.artifacts) :
        /\ cur.artifacts[i].Expired
        /\ \E j \in 1..Len(Options.Artifacts) :
              Options.Artifacts[j].Name = cur.artifacts[i].Name

C2_Satisfies ==
    /\ \E rel \in ResolvedReleases : StrictlyInside(cur.run, rel.UploadTime)
    /\ GatePassed(cur.jobs, Options.RequireSucceeded)
    /\ ~C2_ExpiredMatched
    /\ Collect(cur.artifacts, Options.Artifacts, cur.run, loc.releasedFiles, <<>>).subjects # <<>>

C3_TimelyIffStrictlyInside ==
    Examined =>
        /\ cur.timely <=> \E rel \in ResolvedReleases : StrictlyInside(cur.run, rel.UploadTime)
        /\ pc = "artifacts" => cur.timely
        /\ loc.stmt # NULL => cur.timely

\* A run whose window ends exactly at the only upload time it touches was skipped.
C3_Witness ==
    /\ PassEnded
    /\ cur.run.CreatedAt < cur.run.UpdatedAt
    /\ \E rel \in ResolvedReleases : rel.UploadTime = cur.run.UpdatedAt
    /\ ~cur.timely
    /\ ~loc.examined[Len(loc.examined)].emitted

(***************************************************************************)
(* C4: every subject of an emitted statement is an archive entry that      *)
(* (a) matches a glob pattern of the artifact spec named like its CI       *)
(* artifact and (b) is named like a released file of the resolved version  *)
(* whose own upload time lies strictly inside the run's window.            *)
(***************************************************************************)
C4_EntryOf(s, a) ==
    \E k \in 1..Len(a.Files) :
        a.Files[k].Name = s.Name /\ Sha256(a.Files[k].Content) = s.Digest

C4_MatchesOwnSpec(s, a) ==
    \E j \in 1..Len(Options.Artifacts) :
        /\ Options.Artifacts[j].Name = a.Name
        /\ \E m \in 1..Len(Options.Artifacts[j].Patterns) :
              Match(Options.Artifacts[j].Patterns[m], s.Name)

C4_ReleasedInWindow(s) ==
    \E rel \in ResolvedReleases :
        rel.Filename = s.Name /\ StrictlyInside(cur.run, rel.UploadTime)

C4_SubjectsMatchOwnSpec ==
    (Examined /\ loc.stmt # NULL) =>
        \A i \in 1..Len(loc.stmt.Subject) :
            LET s == loc.stmt.Subject[i]
            IN  /\ C4_ReleasedInWindow(s)
                /\ \E n \in 1..Len(cur.artifacts) :
                      C4_EntryOf(s, cur.artifacts[n]) /\ C4_MatchesOwnSpec(s, cur.artifacts[n])

(***************************************************************************)
(* C5: every statement returned by MonitorBuild or by Rebuild has a        *)
(* subject list that is not empty and ascends by subject name, in whatever *)
(* order the CI artifacts and the archive entries were listed.             *)
(***************************************************************************)
C5_Statements ==
    IF loc = NULL THEN {}
    ELSE IF op = "monitor" THEN (IF loc.stmt = NULL THEN {} ELSE {loc.stmt})
    ELSE IF op = "rebuild" THEN {loc.stmts[i] : i \in 1..Len(loc.stmts)}
    ELSE {}

C5_Ascending(subjects) ==
    \A i \in 1..Len(subjects) : \A j \in 1..Len(subjects) :
        i < j => ~StrLess(subjects[j].Name, subjects[i].Name)

C5_SubjectsSortedNonEmpty ==
    \A s \in C5_Statements : Len(s.Subject) > 0 /\ C5_Ascending(s.Subject)

\* A statement of two subjects whose archive entries were listed the other
\* way round.
C5_Witness ==
    /\ op = "monitor" /\ loc # NULL /\ loc.stmt # NULL
    /\ Len(loc.stmt.Subject) = 2
    /\ LET c == Collect(cur.artifacts, Options.Artifacts, cur.run, loc.releasedFiles, <<>>)
       IN  c.subjects # loc.stmt.Subject

(***************************************************************************)
(* C6: Rebuild submits a build only after (1) a release of the resolved    *)
(* version that is not py2 and of a requested type exists, (2) a tag of    *)
(* the repository matched the version and (3) setup.py exists at the       *)
(* package root under that tag; when one of the three fails Rebuild        *)
(* returns an error, no build is submitted and no statement is returned.   *)
(***************************************************************************)
C6_Releases == ReleasesOf(pypi, ResolveVersion(pypi, req.version))

C6_ArtifactExists ==
    \E i \in 1..Len(C6_Releases) :
        /\ C6_Releases[i].PythonVersion # "py2"
        /\ \E t \in 1..Len(Types) : getReleaseType(C6_Releases[i].Filename) = Types[t]

C6_TagMatched ==
    /\ gh # NULL
    /\ \E i \in 1..Len(gh.tags) : TagMatches(gh.tags[i], ResolveVersion(pypi, req.version))

C6_ManifestExists == gh # NULL /\ gh.setup = "present"

C6_BuildOnlyAfterChecks ==
    (op = "rebuild" /\ loc # NULL) =>
        /\ (pc \in {"wheel", "poll"} \/ build # <<>>) =>
              /\ C6_ArtifactExists /\ C6_TagMatched /\ C6_ManifestExists
              /\ TagMatches(loc.tag, loc.version)
              /\ \A i \in 1..Len(build) : build[i].Substitutions.TAG = loc.tag
        /\ ~(C6_ArtifactExists /\ C6_TagMatched /\ C6_ManifestExists) =>
              /\ pc \in {"return", "done"}
              /\ build = <<>>
              /\ loc.stmts = <<>>
              /\ loc.ret # NULL /\ loc.ret.err # NULL /\ loc.ret.stmts = NULL

\* A build was submitted for the tag that matched, the second of the listing.
C6_Witness ==
    /\ op = "rebuild" /\ pc = "poll" /\ Len(build) = 1
    /\ gh.tags = <<T331, T33>> /\ build[1].Substitutions.TAG = T33

(***************************************************************************)
(* C7: while the build operation does not report done rebuildWheel only    *)
(* reads it again; a statement is made for a wheel only when its operation *)
(* reported done without an error, that is when every build step           *)
(* succeeded; when a finished operation carries an error Rebuild returns   *)
(* an error and no statement, and nothing is signed or stored.             *)
(***************************************************************************)
C7_StatementsOfFinishedBuilds ==
    (op = "rebuild" /\ loc # NULL) =>
        /\ Len(loc.stmts) <= Len(build)
        /\ \A i \in 1..Len(loc.stmts) :
              /\ build[i].op.Done /\ build[i].op.Error = NULL /\ build[i].failed = ""
              /\ loc.stmts[i].Subject[1].Name = build[i].wheel.Filename
        /\ \A i \in 1..Len(build) :
              (build[i].op.Done /\ build[i].op.Error # NULL) =>
                  /\ i = Len(build) /\ Len(loc.stmts) < i
                  /\ kms = <<>> /\ store.attestations = <<>>
                  /\ pc \in {"return", "done"} =>
                        loc.ret # NULL /\ loc.ret.err # NULL /\ loc.ret.stmts = NULL

C7_WaitsWhileNotDone ==
    (op = "rebuild" /\ pc = "poll" /\ ~build[Len(build)].op.Done) =>
        \/ ~alive'
        \/ /\ pc' = "poll" /\ loc' = loc /\ Len(build') = Len(build)
           /\ build'[Len(build)].polls = build[Len(build)].polls + 1
           /\ kms' = kms /\ store' = store

C7_StatementOnlyAfterDone ==
    [](C7_StatementsOfFinishedBuilds) /\ [][C7_WaitsWhileNotDone]_vars

\* The operation was read until it reported done, without an error, and the
\* statement was returned, signed and stored.
C7_Witness ==
    /\ op = "rebuild" /\ pc = "done" /\ resp = 200
    /\ Len(build) = 1 /\ build[1].polls = MaxPolls
    /\ Len(loc.stmts) = 1 /\ store.attestations # <<>>

(***************************************************************************)
(* C8: when the rebuild ran and its diff step failed, HandleRebuild        *)
(* answers 409 and records the audit status "failed", not 500 and "error". *)
(***************************************************************************)
C8_DiffMismatchIsConflict ==
    (/\ op = "rebuild" /\ pc = "done" /\ alive
     /\ build # <<>> /\ build[Len(build)].failed = "diffoscope") =>
        /\ resp = 409
        /\ store.rebuilds # <<>>
        /\ store.rebuilds[Len(store.rebuilds)].status = "failed"

(***************************************************************************)
(* C9: each not-found condition - no policy, no release to rebuild, no     *)
(* matching tag, no setup.py at the package root, no workflow of the       *)
(* policy's name, no run that satisfies the constraints - is answered 404  *)
(* by the handler.                                                         *)
(***************************************************************************)
C9_PolicyAbsent == fetchPolicy(policy, req.scope, req.pkg).err

C9_RebuildNotFound ==
    /\ op = "rebuild" /\ loc # NULL
    /\ \/ ~C6_ArtifactExists
       \/ gh # NULL /\ ~C6_TagMatched
       \/ gh # NULL /\ gh.setup = "absent"

C9_MonitorNotFound ==
    /\ op = "monitor" /\ loc # NULL /\ gh # NULL
    /\ \/ \A i \in 1..Len(gh.workflows) : gh.workflows[i].Name # Options.Workflow
       \/ loc.wf # NULL /\ loc.err = "" /\ loc.stmt = NULL

C9_NotFoundIs404 ==
    (/\ pc = "done" /\ alive /\ req # NULL
     /\ C9_PolicyAbsent \/ C9_RebuildNotFound \/ C9_MonitorNotFound) =>
        resp = 404

(***************************************************************************)
(* C11: the Policy returned by fetchPolicy, and each Policy returned by    *)
(* fetchPolicies, has as Digest the SHA-256 hex of exactly the bytes of    *)
(* the file that was read; a digest key in the document is never used.     *)
(***************************************************************************)
C11_PolicyFiles ==
    {i \in 1..Len(policy.tree) :
        /\ Inside(policy.tree[i].path, policy.dir)
        /\ LET segs == Split(policy.tree[i].path, "/") IN segs[Len(segs)] = PolicyYaml}

C11_FileRead ==
    FileAt(policy.tree,
           policy.dir \o <<"/">> \o req.scope \o <<"/">> \o req.pkg \o <<"/">> \o PolicyYaml)

C11_FileReadAtRoot ==
    FileAt(policy.tree, req.scope \o <<"/">> \o req.pkg \o <<"/">> \o PolicyYaml)

C11_DigestOfBytesRead ==
    op = "policy" =>
        /\ (cur # NULL /\ ~cur.err) =>
              LET file == IF policy.dir = DirDot THEN C11_FileReadAtRoot ELSE C11_FileRead
              IN  file # NULL /\ cur.np.Digest = <<"hex", <<"sha256", file.content>>>>
        /\ (loc # NULL /\ ~loc.err /\ ~loc.panic) =>
              /\ Len(loc.policies) = Cardinality(C11_PolicyFiles)
              /\ \A i \in C11_PolicyFiles : \E k \in 1..Len(loc.policies) :
                    loc.policies[k].Digest = <<"hex", <<"sha256", policy.tree[i].content>>>>

\* Both functions have read a policy file that itself has a digest key.
C11_Witness ==
    /\ op = "policy" /\ cur # NULL /\ ~cur.err
    /\ loc # NULL /\ ~loc.err /\ ~loc.panic /\ Len(loc.policies) = 1
    /\ \E i \in C11_PolicyFiles :
          /\ policy.tree[i].content = DigestContent
          /\ cur.np.Digest = <<"hex", <<"sha256", DigestContent>>>>
          /\ loc.policies[1].Digest = cur.np.Digest

(***************************************************************************)
(* C17: for every policy.yaml under the configured policy root,            *)
(* fetchPolicies returns a Policy whose Scope and Package are the two path *)
(* segments just above the file name, with the scope, package and digest   *)
(* fetchPolicy returns for that file, for any root and any nesting depth.  *)
(***************************************************************************)
C17_SameAsFetchPolicy ==
    (op = "policy" /\ loc # NULL /\ ~loc.err) =>
        /\ ~loc.panic
        /\ \A i \in C11_PolicyFiles :
              LET segs  == Split(policy.tree[i].path, "/")
                  scope == segs[Len(segs) - 2]
                  pkg   == segs[Len(segs) - 1]
              IN  \E k \in 1..Len(loc.policies) :
                     /\ loc.policies[k].Scope = scope
                     /\ loc.policies[k].Package = pkg
                     /\ loc.policies[k].Digest = HexDigest(policy.tree[i].content)

(***************************************************************************)
(* C12: getReleaseType answers for every file name, by this procedure:     *)
(* suffix .tar.gz gives sourceGztar; else suffix .zip gives sourceZip;     *)
(* else suffix .whl takes the last '-'-separated segment before the        *)
(* extension as the platform tag and maps exactly "any" to wheelAny and    *)
(* the prefixes manylinux, musllinux, macos, win to their wheel types;     *)
(* everything else gives unknownReleaseType.  As stated the platform tag   *)
(* is the whole segment (C12_WholeSegmentIsPlatform); in the code it is    *)
(* the part of that segment before its first '.' (C12_FollowsProcedure).   *)
(***************************************************************************)
C12_Stem == SubSeq(req.filename, 1, Len(req.filename) - Len(DotWhl))

\* The last '-'-separated segment of the stem.
C12_LastSegment ==
    LET dashes == {i \in 1..Len(C12_Stem) : C12_Stem[i] = "-"}
        from   == IF dashes = {} THEN 1
                  ELSE 1 + CHOOSE i \in dashes : \A j \in dashes : j <= i
    IN  SubSeq(C12_Stem, from, Len(C12_Stem))

\* The part of the last segment before its first '.'.
C12_FirstTag ==
    LET dots == {i \in 1..Len(C12_LastSegment) : C12_LastSegment[i] = "."}
        upto == IF dots = {} THEN Len(C12_LastSegment)
                ELSE (CHOOSE i \in dots : \A j \in dots : i <= j) - 1
    IN  SubSeq(C12_LastSegment, 1, upto)

C12_Procedure(platform) ==
    IF HasSuffix(req.filename, DotTarGz) THEN "sourceGztar"
    ELSE IF HasSuffix(req.filename, DotZip) THEN "sourceZip"
    ELSE IF ~HasSuffix(req.filename, DotWhl) THEN "unknownReleaseType"
    ELSE IF platform = PlatformAny THEN "wheelAny"
    ELSE IF HasPrefix(platform, Manylinux) THEN "wheelManylinux"
    ELSE IF HasPrefix(platform, Musllinux) THEN "wheelMusllinux"
    ELSE IF HasPrefix(platform, Macos) THEN "wheelMacos"
    ELSE IF HasPrefix(platform, Win) THEN "wheelWin"
    ELSE "unknownReleaseType"

C12_WholeSegmentIsPlatform ==
    (op = "classify" /\ cur # NULL) =>
        /\ cur.type \in ReleaseTypes
        /\ cur.type = C12_Procedure(C12_LastSegment)

C12_FollowsProcedure ==
    (op = "classify" /\ cur # NULL) =>
        /\ cur.type \in ReleaseTypes
        /\ cur.type = C12_Procedure(C12_FirstTag)

\* A wheel whose last segment is any.win32 was classified wheelAny.
C12_Witness ==
    /\ op = "classify" /\ cur # NULL
    /\ req.filename = HeadWheel \o PAnyWin \o DotWhl
    /\ cur.type = "wheelAny"

(***************************************************************************)
(* C13: Rebuild takes the first tag, in listing order, whose whole name is *)
(* an optional prefix ending in a non-digit, then the version itself, then *)
(* nothing or a suffix that does not begin with a, b, d, p, - or . ; for   *)
(* version 3.3 the tags 3.3 and v3.3 match and 3.3.1, 3.3a1, 3.3.dev0 do   *)
(* not; when no tag matches Rebuild fails with the no-tag-found error.     *)
(***************************************************************************)
C13_HasVersionLiteral(tag, version) ==
    \E p \in 0..Len(tag) :
        /\ p = 0 \/ tag[p] \notin {"0", "1", "2", "3", "4", "5", "6", "7", "8", "9"}
        /\ p + Len(version) <= Len(tag)
        /\ SubSeq(tag, p + 1, p + Len(version)) = version
        /\ \/ p + Len(version) = Len(tag)
           \/ tag[p + Len(version) + 1] \notin {"a", "b", "d", "p", "-", "."}

C13_FirstLiteralTagSelected ==
    (op = "rebuild" /\ loc # NULL /\ gh # NULL) =>
        LET m == {i \in 1..Len(gh.tags) : C13_HasVersionLiteral(gh.tags[i], loc.version)}
        IN  /\ C13_HasVersionLiteral(T33, V33) /\ C13_HasVersionLiteral(Tv33, V33)
            /\ ~C13_HasVersionLiteral(T331, V33) /\ ~C13_HasVersionLiteral(T33a1, V33)
            /\ ~C13_HasVersionLiteral(T33dev0, V33)
            /\ m # {} => loc.tag = gh.tags[CHOOSE i \in m : \A j \in m : i <= j]
            /\ m = {} =>
                  /\ loc.tag = <<>> /\ build = <<>>
                  /\ loc.ret # NULL /\ loc.ret.err # NULL /\ loc.ret.err.text = NoTag

(***************************************************************************)
(* C14: every outcome of a rebuild or monitor pipeline call (success, not  *)
(* found, conflict, error) leaves an audit record with a non-empty status  *)
(* in the rebuilds or monitors collection, and on success the attestation  *)
(* is stored as well.                                                      *)
(***************************************************************************)
C14_Records == IF op = "monitor" THEN store.monitors ELSE store.rebuilds

C14_EveryOutcomeAudited ==
    (/\ op \in {"monitor", "rebuild"} /\ pc = "done" /\ alive
     /\ loc # NULL /\ resp # 0) =>
        /\ C14_Records # <<>>
        /\ C14_Records[Len(C14_Records)].status # ""
        /\ resp = 200 => store.attestations # <<>>

(***************************************************************************)
(* C15: a failed external call during a request (package index fetch,      *)
(* workflow or run or job listing, build-operation poll, commit lookup)    *)
(* ends that request only; the process lives on.                           *)
(***************************************************************************)
C15_ProcessSurvivesFailedCall ==
    op \in {"monitor", "rebuild"} =>
        \* the request ended before MonitorBuild or Rebuild had its first answers
        /\ (pc = "done" /\ req # NULL /\ loc = NULL) => alive
        \* the request ended while the jobs of a run were listed
        /\ (op = "monitor" /\ pc = "done" /\ loc # NULL /\ loc.i <= loc.n
               /\ loc.stmt = NULL /\ loc.err = "") => alive
        \* the request ended while the build operation had not reported done
        /\ (op = "rebuild" /\ pc = "done" /\ build # <<>>
               /\ ~build[Len(build)].op.Done) => alive

(***************************************************************************)
(* C18: a handler whose package policy lacks its section - rebuilder for   *)
(* HandleRebuild, build_monitor for HandleMonitor, provenance_upload for   *)
(* HandleUpload - answers 400 and calls no pipeline, no signer and no      *)
(* attestation write.  As stated this is for every request                 *)
(* (C18_MissingSectionIs400); in the code HandleUpload first answers a     *)
(* request without a usable credential 403 (C18_MissingSectionIs400AfterAuth). *)
(***************************************************************************)
C18_Handled ==
    IF op = "upload" THEN loc'.handled = loc.handled + 1
    ELSE op \in {"monitor", "rebuild"} /\ pc = "start" /\ pc' # "start"

C18_Missing(r) ==
    /\ ~policy[r.pkg].err
    /\ op = "upload" => policy[r.pkg].ProvenanceUpload = NULL
    /\ op = "monitor" => policy[r.pkg].BuildMonitor = NULL
    /\ op = "rebuild" => policy[r.pkg].Rebuilder = NULL

C18_NothingDone ==
    /\ kms' = kms /\ store' = store
    /\ op # "upload" =>
          pc' = "done" /\ loc' = loc /\ pypi' = pypi /\ gh' = gh /\ build' = build

C18_MissingSectionIs400 ==
    [][ (C18_Handled /\ C18_Missing(req')) => (resp' = 400 /\ C18_NothingDone) ]_vars

C18_MissingSectionIs400AfterAuth ==
    [][ (C18_Handled /\ C18_Missing(req')) =>
          /\ C18_NothingDone
          /\ (op = "upload" => C1_HasPrincipal(req')) => resp' = 400 ]_vars

\* A rebuild request for a package whose policy has a build_monitor section
\* only was answered 400 before anything was called.
C18_Witness ==
    /\ op = "rebuild" /\ pc = "done" /\ resp = 400
    /\ policy[req.pkg].Rebuilder = NULL /\ policy[req.pkg].BuildMonitor # NULL
    /\ loc = NULL /\ pypi = NULL /\ kms = <<>> /\ store = NoStore

(***************************************************************************)
(* C19: in MonitorBuild a run with an expired artifact whose name matches  *)
(* a declared specification is abandoned: no statement for that run, even  *)
(* when artifacts listed before the expired one gave subjects, and the     *)
(* scan goes on with the next run.  As stated this is for every such run   *)
(* (C19_ExpiredRunAbandoned); in the code it is so when the loop over the  *)
(* artifacts gets to the expired one, no matched artifact before it having *)
(* failed to download (C19_ReachedExpiredRunAbandoned).                    *)
(***************************************************************************)
C19_Matched(a) ==
    \E j \in 1..Len(Options.Artifacts) : Options.Artifacts[j].Name = a.Name

C19_ExpiredMatched(artifacts) ==
    \E k \in 1..Len(artifacts) : artifacts[k].Expired /\ C19_Matched(artifacts[k])

C19_ExpiredReached(artifacts) ==
    \E k \in 1..Len(artifacts) :
        /\ artifacts[k].Expired /\ C19_Matched(artifacts[k])
        /\ \A j \in 1..(k - 1) :
              (C19_Matched(artifacts[j]) /\ ~artifacts[j].Expired) => artifacts[j].Status = 200

C19_PassOver == op = "monitor" /\ pc = "artifacts" /\ pc' # "artifacts"

C19_NextRun ==
    /\ loc'.stmt = NULL /\ loc'.err = ""
    /\ loc'.i = loc.i + 1
    /\ loc'.examined = Append(loc.examined, [run |-> loc.i, emitted |-> FALSE])
    /\ pc' = IF loc.i < loc.n THEN "loop" ELSE "return"

C20_TargetSucceeded ==
    LET rs == Options.RequireSucceeded
    IN  \E k \in 1..Len(cur.jobs) :
           /\ cur.jobs[k].Name = rs.Job
           /\ IF rs.Step = "" THEN cur.jobs[k].Conclusion = "success"
              ELSE \E m \in 1..Len(cur.jobs[k].Steps) :
                      /\ cur.jobs[k].Steps[m].Name = rs.Step
                      /\ cur.jobs[k].Steps[m].Conclusion = "success"

C20_GateDecides ==
    (Examined /\ alive /\ cur.timely /\ Options.RequireSucceeded # NULL) =>
        /\ (PassEnded /\ loc.examined[Len(loc.examined)].emitted) => C20_TargetSucceeded
        /\ ~C20_TargetSucceeded =>
              /\ PassEnded /\ ~loc.examined[Len(loc.examined)].emitted
              /\ loc.stmt = NULL /\ loc.err = ""
              /\ pc # "done" => pc = (IF loc.i > loc.n THEN "return" ELSE "loop")

(***************************************************************************)
(* C16: in every interleaving of concurrent upload, rebuild and monitor    *)
(* requests, two requests for different package/version pairs write        *)
(* different attestation documents, and neither overwrites the other's.    *)
(***************************************************************************)
C16_Pair(i) == <<req[i].pkg, req[i].version>>

C16_DifferentPairsDifferentDocs ==
    op = "store" =>
        \A i, j \in Slots :
            (pc[i] = "written" /\ pc[j] = "written" /\ C16_Pair(i) # C16_Pair(j)) =>
                /\ DocKey(req[i].pkg, req[i].version) # DocKey(req[j].pkg, req[j].version)
                /\ store.attestations[DocKey(req[i].pkg, req[i].version)].package = req[i].pkg
                /\ store.attestations[DocKey(req[i].pkg, req[i].version)].version = req[i].version

(***************************************************************************)
(* C21: every attestation HandleRebuild or HandleMonitor stores is keyed   *)
(* by the package and a non-empty version, the version of the release      *)
(* whose files are the statement's subjects - with an explicit version in  *)
(* the request, with an empty one (latest), and for statements without a   *)
(* .whl subject.                                                           *)
(***************************************************************************)
C21_Subjects ==
    IF op = "monitor" THEN loc.stmt.Subject ELSE loc.stmts[1].Subject

C21_FilesOfRelease(subjects, version) ==
    /\ version \in DOMAIN pypi.Releases
    /\ \A i \in 1..Len(subjects) :
          \E k \in 1..Len(pypi.Releases[version]) :
              pypi.Releases[version][k].Filename = subjects[i].Name

C21_KeyedByReleaseVersion ==
    (op \in {"monitor", "rebuild"} /\ store.attestations # <<>>) =>
        \A key \in DOMAIN store.attestations :
            LET doc == store.attestations[key]
            IN  /\ doc.package = req.pkg
                /\ key = DocKey(doc.package, Str(doc.version))
                /\ doc.version # <<>>
                /\ C21_FilesOfRelease(C21_Subjects, doc.version)

(***************************************************************************)
(* C22: the tag Rebuild selects for version V contains V as a literal      *)
(* substring - each '.' of V a '.' of the tag - and V is not followed by   *)
(* another digit there: version 3.3 never selects the tag 3.30.            *)
(***************************************************************************)
C22_NamesVersion(tag, version) ==
    \E p \in 0..(Len(tag) - Len(version)) :
        /\ SubSeq(tag, p + 1, p + Len(version)) = version
        /\ \/ p + Len(version) = Len(tag)
           \/ tag[p + Len(version) + 1] \notin
                 {"0", "1", "2", "3", "4", "5", "6", "7", "8", "9"}

C22_SelectedTagNamesVersion ==
    (op = "rebuild" /\ loc # NULL /\ loc.tag # <<>>) =>
        /\ C22_NamesVersion(loc.tag, loc.version)
        /\ loc.version = V33 => loc.tag # T330

(***************************************************************************)
(* C23: transferMetadata and transferFileOrder only normalise the rebuilt  *)
(* archive: after both the destination holds the same entries (names and   *)
(* contents) as before, those whose names occur in the source first, in    *)
(* source order, the others after them; only the modification time and the *)
(* external attributes of entries named in the source are changed; and a   *)
(* second application changes nothing further.                             *)
(***************************************************************************)
C23_Payload(archive, i) == <<archive[i].Name, archive[i].Content>>

C23_SameEntries ==
    /\ Len(cur) = Len(req.dest)
    /\ {C23_Payload(cur, i) : i \in 1..Len(cur)}
          = {C23_Payload(req.dest, i) : i \in 1..Len(req.dest)}

C23_FirstAt(name) ==
    CHOOSE i \in 1..Len(req.source) :
        /\ req.source[i].Name = name
        /\ \A j \in 1..(i - 1) : req.source[j].Name # name

C23_SourceNamedFirst ==
    \A i, j \in 1..Len(cur) :
        i < j =>
            /\ cur[j].Name \in Names(req.source) => cur[i].Name \in Names(req.source)
            /\ (cur[j].Name \in Names(req.source) /\ cur[i].Name # cur[j].Name)
                  => C23_FirstAt(cur[i].Name) < C23_FirstAt(cur[j].Name)

C23_OnlyNamedTouched ==
    \A i \in 1..Len(cur) :
        \E k \in 1..Len(req.dest) :
            /\ C23_Payload(req.dest, k) = C23_Payload(cur, i)
            /\ cur[i].Name \notin Names(req.source) => cur[i] = req.dest[k]

C23_SecondChangesNothing == loc.applications >= 2 => cur = loc.before

C23_OnlyNormalises ==
    (op = "transfer" /\ pc = "ordered") =>
        /\ C23_SameEntries
        /\ C23_SourceNamedFirst
        /\ C23_OnlyNamedTouched
        /\ C23_SecondChangesNothing

====
